---- MODULE Spec2Model ----
(***************************************************************************)
(* Model of the Vercel adapter for Next.js (packages/adapter).             *)
(*                                                                         *)
(* onBuildComplete is modelled as a sequential process: one action per     *)
(* awaited call or block of src/packages/adapter/src/index.ts.  Strings    *)
(* are TLA+ strings, handled character by character, so that the route     *)
(* patterns and destinations are the ones the code produces.               *)
(***************************************************************************)
EXTENDS Integers, Sequences, FiniteSets, TLC

(***************************************************************************)
(* Bounds of the explored build descriptions.                              *)
(***************************************************************************)
MaxRedirects == 2
MaxHeaders == 1
MaxRewrites == 1
MaxDynamicRoutes == 2
MaxPrerenders == 2
MaxRuns == 2

(***************************************************************************)
(* JavaScript string primitives used by the adapter.                       *)
(***************************************************************************)
CharAt(s, i) == SubSeq(s, i, i)

\* s.startsWith(p)
StartsWith(s, p) == Len(s) >= Len(p) /\ SubSeq(s, 1, Len(p)) = p

\* s.endsWith(p)
EndsWith(s, p) == Len(s) >= Len(p) /\ SubSeq(s, Len(s) - Len(p) + 1, Len(s)) = p

\* s.includes(p)
Includes(s, p) == \E i \in 1..(Len(s) - Len(p) + 1) : SubSeq(s, i, i + Len(p) - 1) = p

\* s.indexOf(c), 0-based, -1 when absent
IndexOf(s, c) ==
    IF Includes(s, c)
    THEN (CHOOSE i \in 1..Len(s) :
              /\ SubSeq(s, i, i + Len(c) - 1) = c
              /\ \A j \in 1..(i - 1) : SubSeq(s, j, j + Len(c) - 1) # c) - 1
    ELSE -1

\* s.substring(from) and s.substring(from, to), 0-based, end exclusive
SubstringFrom(s, from) == SubSeq(s, from + 1, Len(s))
Substring(s, from, to) == SubSeq(s, from + 1, to)

\* parts.join(sep)
RECURSIVE JoinWith(_, _)
JoinWith(parts, sep) ==
    IF Len(parts) = 0 THEN ""
    ELSE IF Len(parts) = 1 THEN parts[1]
    ELSE parts[1] \o sep \o JoinWith(Tail(parts), sep)

\* str.replace(/[<set>]/g, '\\$&'): every character of the set gets a backslash
RECURSIVE EscapeChars(_, _)
EscapeChars(str, set) ==
    IF Len(str) = 0 THEN ""
    ELSE (IF CharAt(str, 1) \in set THEN "\\" ELSE "") \o CharAt(str, 1)
             \o EscapeChars(SubSeq(str, 2, Len(str)), set)

\* matchOperatorsRegex = /[|\\{}()[\]^$+*?.-]/g
matchOperatorsRegex ==
    {"|", "\\", "{", "}", "(", ")", "[", "]", "^", "$", "+", "*", "?", ".", "-"}

\* variant: the character class of the inline escapes, which has no '-'
escapeStringRegexpWithoutDash(str) == EscapeChars(str, matchOperatorsRegex \ {"-"})

escapeStringRegexp(str) == EscapeChars(str, matchOperatorsRegex)

\* the inline /[.*+?^${}()|[\]\\]/g of the literal 404/500 rules and of
\* normalizeNextDataRoutes
InlineEscapeRegex ==
    {".", "*", "+", "?", "^", "$", "{", "}", "(", ")", "|", "[", "]", "\\"}

InlineEscape(str) == EscapeChars(str, InlineEscapeRegex)

(***************************************************************************)
(* path.posix.join: the non-empty arguments joined with "/", then          *)
(* normalised (runs of "/" collapsed, "." segments dropped, ".." resolved, *)
(* a trailing "/" kept); "." for an empty result.                          *)
(***************************************************************************)
\* the elements of a set of numbers, ascending
RECURSIVE Ascending(_)
Ascending(S) ==
    IF S = {} THEN <<>>
    ELSE LET m == CHOOSE x \in S : \A y \in S : x <= y
         IN <<m>> \o Ascending(S \ {m})

\* p.split('/')
SplitSlash(p) ==
    LET cuts == <<0>> \o Ascending({i \in 1..Len(p) : CharAt(p, i) = "/"}) \o <<Len(p) + 1>>
    IN [k \in 1..(Len(cuts) - 1) |-> SubSeq(p, cuts[k] + 1, cuts[k + 1] - 1)]

RECURSIVE NormalizeSegments(_, _, _)
NormalizeSegments(segs, acc, isAbsolute) ==
    IF Len(segs) = 0 THEN acc
    ELSE LET seg == Head(segs) IN
         IF seg = "" \/ seg = "." THEN NormalizeSegments(Tail(segs), acc, isAbsolute)
         ELSE IF seg = ".."
              THEN IF Len(acc) > 0 /\ acc[Len(acc)] # ".."
                   THEN NormalizeSegments(Tail(segs), SubSeq(acc, 1, Len(acc) - 1), isAbsolute)
                   ELSE IF isAbsolute
                        THEN NormalizeSegments(Tail(segs), acc, isAbsolute)
                        ELSE NormalizeSegments(Tail(segs), Append(acc, seg), isAbsolute)
              ELSE NormalizeSegments(Tail(segs), Append(acc, seg), isAbsolute)

PosixNormalize(p) ==
    IF Len(p) = 0 THEN "."
    ELSE LET isAbsolute == CharAt(p, 1) = "/"
             trailing == CharAt(p, Len(p)) = "/"
             body == JoinWith(NormalizeSegments(SplitSlash(p), <<>>, isAbsolute), "/")
         IN IF Len(body) = 0
            THEN (IF isAbsolute THEN "/" ELSE IF trailing THEN "./" ELSE ".")
            ELSE (IF isAbsolute THEN "/" ELSE "") \o body \o (IF trailing THEN "/" ELSE "")

PosixJoin(parts) ==
    PosixNormalize(JoinWith(SelectSeq(parts, LAMBDA a : Len(a) > 0), "/"))

(***************************************************************************)
(* The build description handed to onBuildComplete: routes, config,        *)
(* buildId, outputs.  An optional value is a sequence of length 0 or 1.    *)
(***************************************************************************)
SeqsUpTo(S, n) == UNION {[1..k -> S] : k \in 0..n}

\* every order-preserving selection of the elements of a sequence
RECURSIVE SubSequences(_)
SubSequences(s) ==
    IF Len(s) = 0 THEN {<<>>}
    ELSE LET rest == SubSequences(Tail(s)) IN rest \cup {<<Head(s)>> \o r : r \in rest}

BuildIds == {"b-1"}

BasePaths == {"", "/docs"}

Domains == <<[domain |-> "example.fr", defaultLocale |-> "fr", locales |-> <<>>, http |-> FALSE],
             [domain |-> "example.com", defaultLocale |-> "en-US", locales |-> <<"nl">>, http |-> TRUE]>>

I18nConfigs ==
    {[defaultLocale |-> "en-US", locales |-> <<"en-US", "fr", "nl">>,
      domains |-> d, localeDetection |-> ld] : d \in {<<>>, Domains}, ld \in BOOLEAN}

I18nOptions == {<<>>} \cup {<<c>> : c \in I18nConfigs}

OneI18n == <<[defaultLocale |-> "en-US", locales |-> <<"en-US", "fr", "nl">>,
              domains |-> Domains, localeDetection |-> TRUE]>>

MakeConfig(basePath, trailingSlash, i18n, cacheComponents, clientSegmentCache) ==
    [basePath |-> basePath, trailingSlash |-> trailingSlash, i18n |-> i18n,
     experimental |-> [cacheComponents |-> cacheComponents,
                       clientSegmentCache |-> clientSegmentCache]]

Configs ==
    {MakeConfig(bp, ts, i, cc, csc) :
        bp \in BasePaths, ts \in BOOLEAN, i \in I18nOptions, cc \in BOOLEAN, csc \in BOOLEAN}

BaseConfig(basePath, i18n) == MakeConfig(basePath, FALSE, i18n, FALSE, FALSE)

\* function outputs: AdapterOutput['PAGES' | 'APP_PAGE' | 'APP_ROUTE' | 'PAGES_API']
Output(type, page, runtime, basePath) ==
    [id |-> page, pathname |-> basePath \o page, runtime |-> runtime, type |-> type]

AppPagesCatalogue(bp) == <<Output("APP_PAGE", "/_not-found", "nodejs", bp),
                           Output("APP_PAGE", "/dashboard", "edge", bp)>>

PagesCatalogue(bp) == <<Output("PAGES", "/404", "nodejs", bp),
                        Output("PAGES", "/500", "nodejs", bp),
                        Output("PAGES", "/posts/[slug]", "nodejs", bp)>>

SlugPage(bp) == Output("PAGES", "/posts/[slug]", "nodejs", bp)

CatchAllPage(bp) == Output("PAGES", "/[...rest]", "nodejs", bp)

StaticCatalogue(bp) == <<[id |-> "/static404", pathname |-> bp \o "/404"]>>

\* AdapterOutput['PRERENDER']; parentFallbackMode "false" stands for the
\* boolean false, "blocking" for any other mode
Prerender(page, parentOutputId, parentFallbackMode, basePath) ==
    [pathname |-> basePath \o page, parentOutputId |-> parentOutputId,
     parentFallbackMode |-> parentFallbackMode]

PrerenderCatalogue(bp) ==
    {Prerender("/posts/a", "/posts/[slug]", "false", bp),
     Prerender("/_next/data/b-1/posts/a.json", "/posts/[slug]", "false", bp),
     Prerender("/gone/x", "/gone/[id]", "false", bp),
     Prerender("/gone/y", "/gone/[id]", "blocking", bp)}

\* the prerenders of a build with i18n: their pathnames carry the locale
LocalePrerenderCatalogue(bp) ==
    {Prerender("/en-US/posts/a", "/posts/[slug]", "false", bp),
     Prerender("/fr/posts/a", "/posts/[slug]", "false", bp),
     Prerender("/fr/posts/c", "/posts/[slug]", "blocking", bp)}

\* AdapterOutput['MIDDLEWARE'], absent or present
Matcher(i) == [sourceRegex |-> "^/m" \o ToString(i) \o "(?:/.*)?$",
               source |-> "/m" \o ToString(i), has |-> <<>>, missing |-> <<>>]

Middleware(runtime, n, basePath) ==
    [id |-> "/_middleware", pathname |-> basePath \o "/_middleware", runtime |-> runtime,
     type |-> "MIDDLEWARE", config |-> [matchers |-> [i \in 1..n |-> Matcher(i)]]]

MiddlewareOptions(bp) == {<<>>, <<Middleware("nodejs", 1, bp)>>, <<Middleware("edge", 2, bp)>>}

MakeOutputs(appPages, pages, staticFiles, prerenders, middleware) ==
    [appPages |-> appPages, appRoutes |-> <<>>, pages |-> pages, pagesApi |-> <<>>,
     staticFiles |-> staticFiles, prerenders |-> prerenders, middleware |-> middleware]

\* entries of routes.rewrites, routes.redirects, routes.headers, routes.dynamicRoutes
Rewrite(group, i) ==
    [sourceRegex |-> "^/" \o group \o ToString(i) \o "(?:\\/)?$",
     destination |-> IF group = "fallback" THEN "https://ext.example/" \o ToString(i)
                     ELSE "/to-" \o group \o "?from=" \o ToString(i),
     has |-> <<>>, missing |-> <<>>]

Rewrites(nb, na, nf) ==
    [beforeFiles |-> [i \in 1..nb |-> Rewrite("before", i)],
     afterFiles |-> [i \in 1..na |-> Rewrite("after", i)],
     fallback |-> [i \in 1..nf |-> Rewrite("fallback", i)]]

\* the forms of rewrite entry explored: the trailing-slash suffix of sourceRegex
\* present or not, destination with a query, a hash, neither, or external,
\* and has / missing conditions
RewriteShapes == {"mixed", "plain", "query", "hash", "external", "open", "slash", "conditional"}

ShapedRewrite(group, i, shape) ==
    LET name == group \o ToString(i)
    IN CASE shape = "plain" ->
              [sourceRegex |-> "^/" \o name \o "(?:\\/)?$", destination |-> "/to-" \o name,
               has |-> <<>>, missing |-> <<>>]
         [] shape = "query" ->
              [sourceRegex |-> "^/" \o name \o "(?:\\/)?$",
               destination |-> "/to-" \o name \o "?a=1&b=2", has |-> <<>>, missing |-> <<>>]
         [] shape = "hash" ->
              [sourceRegex |-> "^/" \o name \o "(?:\\/)?$",
               destination |-> IF i = 1 THEN "/to-" \o name \o "?a=1#top"
                               ELSE "/to-" \o name \o "#top",
               has |-> <<>>, missing |-> <<>>]
         [] shape = "external" ->
              [sourceRegex |-> "^/" \o name \o "(?:\\/)?$",
               destination |-> (IF i = 1 THEN "https" ELSE "http") \o "://ext.example/" \o name
                                   \o "?a=1",
               has |-> <<>>, missing |-> <<>>]
         [] shape = "open" ->
              [sourceRegex |-> "^/" \o name \o "(?:/(.*))$", destination |-> "/to-" \o name \o "/$1",
               has |-> <<>>, missing |-> <<>>]
         [] shape = "slash" ->
              [sourceRegex |-> "^/" \o name \o (IF i = 1 THEN "\\/" ELSE "\\/?") \o "(?:\\/)?$",
               destination |-> "/to-" \o name \o "?", has |-> <<>>, missing |-> <<>>]
         [] shape = "conditional" ->
              [sourceRegex |-> "^/" \o name \o "(?:\\/)?$", destination |-> "/to-" \o name,
               has |-> <<[type |-> "header", key |-> "x-has-" \o name]>>,
               missing |-> <<[type |-> "header", key |-> "x-missing-" \o name]>>]
         [] OTHER -> Rewrite(group, i)

ShapedRewrites(nb, na, nf, shape) ==
    [beforeFiles |-> [i \in 1..nb |-> ShapedRewrite("before", i, shape)],
     afterFiles |-> [i \in 1..na |-> ShapedRewrite("after", i, shape)],
     fallback |-> [i \in 1..nf |-> ShapedRewrite("fallback", i, shape)]]

Redirect(i, priority) ==
    [sourceRegex |-> "^/old" \o ToString(i) \o "$", destination |-> "/new" \o ToString(i),
     statusCode |-> 308, priority |-> priority, has |-> <<>>, missing |-> <<>>]

Header(i, priority) ==
    [sourceRegex |-> "^/h" \o ToString(i) \o "$", headers |-> ("x-custom" :> ToString(i)),
     priority |-> priority,
     has |-> <<[type |-> "header", key |-> "x-flag"]>>, missing |-> <<>>]

\* a dynamic route of a page, or of its _next/data variant
DynamicRoute(i, isData) ==
    [sourceRegex |-> IF isData THEN "^/_next/data/b\\-1/p" \o ToString(i) \o "/([^/]+?)\\.json$"
                     ELSE "^/p" \o ToString(i) \o "/([^/]+?)(?:/)?$",
     destination |-> "/p" \o ToString(i) \o "/[slug]?nxtPslug=$1",
     has |-> <<>>, missing |-> <<>>]

RedirectList(flags) == [i \in 1..Len(flags) |-> Redirect(i, flags[i])]

HeaderList(flags) == [i \in 1..Len(flags) |-> Header(i, flags[i])]

DynamicRouteList(flags) == [i \in 1..Len(flags) |-> DynamicRoute(i, flags[i])]

MakeRoutes(rewrites, redirects, headers, dynamicRoutes) ==
    [rewrites |-> rewrites, redirects |-> redirects, headers |-> headers,
     dynamicRoutes |-> dynamicRoutes]

BaseRoutes ==
    MakeRoutes(Rewrites(1, 1, 1), RedirectList(<<TRUE, FALSE>>),
               HeaderList(<<TRUE>>), DynamicRouteList(<<TRUE, FALSE>>))

MakeBuild(config, outputs, routes) ==
    [config |-> config, buildId |-> CHOOSE b \in BuildIds : TRUE, outputs |-> outputs,
     routes |-> routes]

(***************************************************************************)
(* The explored build descriptions: each set varies some inputs over all   *)
(* their combinations and keeps the others at a base value.                *)
(***************************************************************************)
DirOptions(bp) ==
    {[appPages |-> a, pages |-> p] :
        a \in {<<>>, <<AppPagesCatalogue(bp)[2]>>}, p \in {<<>>, <<SlugPage(bp)>>}}

\* configuration, middleware and app/pages presence
ConfigBuilds ==
    UNION {{MakeBuild(c, MakeOutputs(d.appPages, d.pages, <<>>, <<>>, m), BaseRoutes) :
               d \in DirOptions(c.basePath), m \in MiddlewareOptions(c.basePath)} :
           c \in Configs}

\* function and static outputs (the not-found / 404 / 500 facts)
OutputBuilds ==
    UNION {{MakeBuild(BaseConfig(bp, i), MakeOutputs(a, p, s, <<>>, <<>>), BaseRoutes) :
               a \in SubSequences(AppPagesCatalogue(bp)),
               p \in SubSequences(PagesCatalogue(bp)),
               s \in SubSequences(StaticCatalogue(bp))} :
           bp \in BasePaths, i \in {<<>>, OneI18n}}

\* prerenders, with and without their parent output
PrerenderBuilds ==
    UNION {{MakeBuild(BaseConfig(bp, <<>>), MakeOutputs(<<>>, p, <<>>, pr, <<>>), BaseRoutes) :
               p \in {<<>>, <<SlugPage(bp)>>, <<SlugPage(bp), CatchAllPage(bp)>>},
               pr \in SeqsUpTo(PrerenderCatalogue(bp), MaxPrerenders)} :
           bp \in BasePaths}

\* prerenders of a build with i18n
LocalePrerenderBuilds ==
    UNION {{MakeBuild(BaseConfig(bp, OneI18n),
                      MakeOutputs(<<>>, <<SlugPage(bp), CatchAllPage(bp)>>, <<>>, pr, <<>>),
                      BaseRoutes) :
               pr \in SeqsUpTo(LocalePrerenderCatalogue(bp), MaxPrerenders)} :
           bp \in BasePaths}

\* user redirects and headers
RedirectBuilds ==
    {MakeBuild(BaseConfig("", i), MakeOutputs(<<>>, <<SlugPage("")>>, <<>>, <<>>, m),
               MakeRoutes(Rewrites(1, 1, 1), RedirectList(r), HeaderList(h),
                          DynamicRouteList(<<FALSE>>))) :
        i \in {<<>>, OneI18n}, r \in SeqsUpTo(BOOLEAN, MaxRedirects),
        h \in SeqsUpTo(BOOLEAN, MaxHeaders), m \in {<<>>, <<Middleware("nodejs", 1, "")>>}}

\* user rewrites and the prefetch flags
RewriteBuilds ==
    {MakeBuild(MakeConfig("", FALSE, <<>>, cc, csc),
               MakeOutputs(<<AppPagesCatalogue("")[2]>>, <<>>, <<>>, <<>>, <<>>),
               MakeRoutes(ShapedRewrites(nb, na, nf, shape), <<>>, <<>>, <<>>)) :
        cc \in BOOLEAN, csc \in BOOLEAN, shape \in RewriteShapes,
        nb \in 0..MaxRewrites, na \in 0..MaxRewrites, nf \in 0..MaxRewrites}

\* dynamic routes against pages-style outputs and middleware
DynamicRouteBuilds ==
    UNION {{MakeBuild(BaseConfig(bp, <<>>), MakeOutputs(d.appPages, d.pages, <<>>, <<>>, m),
                      MakeRoutes(Rewrites(0, 0, 0), <<>>, <<>>, DynamicRouteList(dr))) :
               d \in DirOptions(bp), m \in {<<>>, <<Middleware("nodejs", 1, bp)>>},
               dr \in SeqsUpTo(BOOLEAN, MaxDynamicRoutes)} :
           bp \in BasePaths}

\* route handlers and API routes next to pages, on either runtime
ApiOutputs(runtime) ==
    [MakeOutputs(<<AppPagesCatalogue("")[2]>>, <<SlugPage("")>>, <<>>, <<>>, <<>>)
        EXCEPT !.appRoutes = <<Output("APP_ROUTE", "/api/items", runtime, "")>>,
               !.pagesApi = <<Output("PAGES_API", "/api/[id]", runtime, "")>>]

ApiBuilds ==
    {MakeBuild(BaseConfig("", i),
               [ApiOutputs(runtime) EXCEPT !.middleware = m], BaseRoutes) :
        i \in {<<>>, OneI18n}, runtime \in {"nodejs", "edge"},
        m \in {<<>>, <<Middleware("nodejs", 1, "")>>}}

\* a base path, locales and a build id that hold regex operators
EscapeBuilds ==
    {MakeBuild(BaseConfig("/v1.0", i), MakeOutputs(<<>>, <<SlugPage("/v1.0")>>, <<>>, <<>>, m),
               BaseRoutes) :
        i \in {<<>>, OneI18n}, m \in {<<>>, <<Middleware("nodejs", 1, "/v1.0")>>}}

Builds ==
    ConfigBuilds \cup OutputBuilds \cup PrerenderBuilds \cup LocalePrerenderBuilds
        \cup RedirectBuilds \cup RewriteBuilds \cup DynamicRouteBuilds \cup EscapeBuilds
        \cup ApiBuilds

(***************************************************************************)
(* Routes.  A route is a record holding the fields the code sets; the      *)
(* extra field origin names the fragment of the code that emitted it.      *)
(***************************************************************************)
\* { ...route, ...(cond ? extra : {}) }
With(route, cond, extra) == IF cond THEN extra @@ route ELSE route

HasI18n(config) == Len(config.i18n) > 0

\* config.i18n.locales.map((locale) => escapeStringRegexp(locale)).join('|')
EscapedLocales(config) ==
    JoinWith([i \in 1..Len(config.i18n[1].locales) |->
                 escapeStringRegexp(config.i18n[1].locales[i])], "|")

\* config.i18n.locales.map((locale) => locale.replace(/[.*+?^${}()|[\]\\]/g, '\\$&')).join('|')
InlineEscapedLocales(config) ==
    JoinWith([i \in 1..Len(config.i18n[1].locales) |-> InlineEscape(config.i18n[1].locales[i])],
             "|")

HeaderCondition(key) == <<[type |-> "header", key |-> key]>>

(***************************************************************************)
(* routing.ts: normalizeRewrites, modifyWithRewriteHeaders,                *)
(* normalizeNextDataRoutes, denormalizeNextDataRoutes                      *)
(***************************************************************************)
normalize(item, origin) ==
    [src |-> item.sourceRegex, dest |-> item.destination, has |-> item.has,
     missing |-> item.missing, check |-> TRUE, origin |-> origin]

normalizeBeforeFilesKeepingCheck(item) ==
    normalize(item, "beforeFiles") @@ [continue |-> TRUE, override |-> TRUE]

normalizeBeforeFiles(item) ==
    LET route == normalize(item, "beforeFiles")
    IN [f \in (DOMAIN route \ {"check"}) |-> route[f]] @@ [continue |-> TRUE, override |-> TRUE]

normalizeAfterFiles(item) == normalize(item, "afterFiles")

normalizeFallback(item) == normalize(item, "fallback")

normalizeRewrites(rewrites) ==
    [beforeFiles |-> [i \in 1..Len(rewrites.beforeFiles) |-> normalizeBeforeFiles(rewrites.beforeFiles[i])],
     afterFiles |-> [i \in 1..Len(rewrites.afterFiles) |-> normalizeAfterFiles(rewrites.afterFiles[i])],
     fallback |-> [i \in 1..Len(rewrites.fallback) |-> normalizeFallback(rewrites.fallback[i])]]

\* parts.join('|') of the partial-render suffixes
RscSuffix(shouldHandlePrefetchRsc, shouldHandleSegmentPrefetches) ==
    JoinWith(<<"\\.rsc">>
                 \o (IF shouldHandlePrefetchRsc THEN <<"\\.prefetch\\.rsc">> ELSE <<>>)
                 \o (IF shouldHandleSegmentPrefetches
                     THEN <<"\\.segments/.+\\.segment\\.rsc">> ELSE <<>>),
             "|")

\* src.replace(/(\\\/(\?)?)?\(\?:\\\/\)\?\$$/, replacement): the pattern matches
\* the text (?:\/)?$ at the end of src, with a \/ or \/? right before it if present
ReplaceTrailingSlashSuffix(src, replacement) ==
    LET core == "(?:\\/)?$"
        Cut(suffix) == SubSeq(src, 1, Len(src) - Len(suffix)) \o replacement
    IN IF EndsWith(src, "\\/?" \o core) THEN Cut("\\/?" \o core)
       ELSE IF EndsWith(src, "\\/" \o core) THEN Cut("\\/" \o core)
       ELSE IF EndsWith(src, core) THEN Cut(core)
       ELSE src

WithRscSuffixAtEnd(dest) == dest \o "$rscsuff"

\* rewrite.dest with the placeholder of the captured suffix: at destQueryIndex,
\* or at the end when dest has no '?'
WithRscSuffix(dest) ==
    LET destQueryIndex == IndexOf(dest, "?")
    IN IF destQueryIndex = -1 THEN dest \o "$rscsuff"
       ELSE Substring(dest, 0, destQueryIndex) \o "$rscsuff" \o SubstringFrom(dest, destQueryIndex)

\* one iteration of the loop of modifyWithRewriteHeaders
ModifyRewrite(rewrite, isAfterFilesRewrite, shouldHandlePrefetchRsc, shouldHandleSegmentPrefetches) ==
    IF rewrite.src = "" \/ rewrite.dest = "" THEN rewrite
    ELSE
    LET hasProtocol == StartsWith(rewrite.dest, "http://") \/ StartsWith(rewrite.dest, "https://")
        qIndex == IndexOf(rewrite.dest, "?")
        rawQuery == IF qIndex # -1 THEN SubstringFrom(rewrite.dest, qIndex + 1) ELSE ""
        rawPath == IF qIndex # -1 THEN Substring(rewrite.dest, 0, qIndex) ELSE rewrite.dest
        query == IF hasProtocol \/ qIndex = -1 THEN ""
                 ELSE IF IndexOf(rawQuery, "#") # -1
                      THEN Substring(rawQuery, 0, IndexOf(rawQuery, "#")) ELSE rawQuery
        pathname == IF hasProtocol THEN ""
                    ELSE IF qIndex = -1 /\ IndexOf(rawPath, "#") # -1
                         THEN Substring(rawPath, 0, IndexOf(rawPath, "#")) ELSE rawPath
        newSrc == IF isAfterFilesRewrite
                  THEN ReplaceTrailingSlashSuffix(rewrite.src,
                           "(?:/)?(?<rscsuff>"
                               \o RscSuffix(shouldHandlePrefetchRsc, shouldHandleSegmentPrefetches)
                               \o ")?")
                  ELSE rewrite.src
        newDest == IF isAfterFilesRewrite THEN WithRscSuffix(rewrite.dest) ELSE rewrite.dest
        modified == [rewrite EXCEPT !.src = newSrc, !.dest = newDest]
    IN IF hasProtocol \/ (pathname = "" /\ query = "") THEN modified
       ELSE [headers |->
                 (IF query # "" THEN ("x-nextjs-rewritten-query" :> query) ELSE <<>>)
                     @@ (IF pathname # "" THEN ("x-nextjs-rewritten-path" :> pathname) ELSE <<>>)
                     @@ (IF "headers" \in DOMAIN rewrite THEN rewrite.headers ELSE <<>>)]
                @@ modified

modifyWithRewriteHeaders(rewrites, isAfterFilesRewrite, shouldHandlePrefetchRsc, shouldHandleSegmentPrefetches) ==
    [i \in 1..Len(rewrites) |->
        ModifyRewrite(rewrites[i], isAfterFilesRewrite, shouldHandlePrefetchRsc,
                      shouldHandleSegmentPrefetches)]

normalizeNextDataRoutes(config, buildId, shouldHandleMiddlewareDataResolving, isOverride) ==
    IF ~shouldHandleMiddlewareDataResolving THEN <<>>
    ELSE
    LET basePath == config.basePath
        trailingSlash == config.trailingSlash
    IN <<[src |-> PosixJoin(<<"/", basePath, "/_next/data/(.*)">>),
          missing |-> HeaderCondition("x-nextjs-data"),
          transforms |-> <<[type |-> "request.headers", op |-> "append",
                            target |-> [key |-> "x-nextjs-data"], args |-> "1"]>>,
          continue |-> TRUE, origin |-> "normalizeNextData"],
         With([src |-> "^" \o PosixJoin(<<"/", basePath, "/_next/data/",
                                         InlineEscape(buildId), "/(.*).json">>),
               dest |-> PosixJoin(<<"/", basePath, "/$1", IF trailingSlash THEN "/" ELSE "">>),
               continue |-> TRUE, has |-> HeaderCondition("x-nextjs-data"),
               origin |-> "normalizeNextData"],
              isOverride, [override |-> TRUE]),
         With([src |-> PosixJoin(<<"^/", basePath, "/index(?:/)?">>),
               has |-> HeaderCondition("x-nextjs-data"),
               dest |-> PosixJoin(<<"/", basePath, IF trailingSlash THEN "/" ELSE "">>),
               continue |-> TRUE, origin |-> "normalizeNextData"],
              isOverride, [override |-> TRUE])>>

denormalizeNextDataRoutes(config, buildId, shouldHandleMiddlewareDataResolving, isOverride) ==
    IF ~shouldHandleMiddlewareDataResolving THEN <<>>
    ELSE
    LET basePath == config.basePath
        trailingSlash == config.trailingSlash
    IN <<With([src |-> PosixJoin(<<"^/",
                                   IF basePath # "" /\ basePath # "/"
                                   THEN basePath \o (IF trailingSlash THEN "/$" ELSE "$")
                                   ELSE "$">>),
               has |-> HeaderCondition("x-nextjs-data"),
               dest |-> PosixJoin(<<"/", basePath, "/_next/data/", buildId, "/index.json">>),
               continue |-> TRUE, origin |-> "denormalizeNextData"],
              isOverride, [override |-> TRUE]),
         With([src |-> PosixJoin(<<"^/", basePath, "((?!_next/)(?:.*[^/]|.*))/?$">>),
               has |-> HeaderCondition("x-nextjs-data"),
               dest |-> PosixJoin(<<"/", basePath, "/_next/data/", buildId, "/$1.json">>),
               continue |-> TRUE, origin |-> "denormalizeNextData"],
              isOverride, [override |-> TRUE])>>

(***************************************************************************)
(* outputs.ts: the routes handleMiddleware returns, one per matcher        *)
(***************************************************************************)
MiddlewareMatcherRoute(output, matcher) ==
    [continue |-> TRUE, has |-> matcher.has, src |-> matcher.sourceRegex,
     missing |-> matcher.missing, middlewarePath |-> output.pathname,
     middlewareRawSrc |-> IF matcher.source # "" THEN <<matcher.source>> ELSE <<>>,
     override |-> TRUE, origin |-> "middleware"]

MiddlewareMatcherRoutes(output) ==
    [i \in 1..Len(output.config.matchers) |->
        MiddlewareMatcherRoute(output, output.config.matchers[i])]

(***************************************************************************)
(* index.ts: the fragments of vercelConfig.routes, in the order of the     *)
(* array literal                                                           *)
(***************************************************************************)
Handle(name) == [handle |-> name, origin |-> "handle"]

RedirectRouteWithoutContinue(redirect) ==
    [src |-> redirect.sourceRegex, headers |-> ("Location" :> redirect.destination),
     status |-> redirect.statusCode, has |-> redirect.has, missing |-> redirect.missing,
     origin |-> IF redirect.priority THEN "priorityRedirect" ELSE "redirect"]

RedirectRoute(redirect) ==
    With([src |-> redirect.sourceRegex, headers |-> ("Location" :> redirect.destination),
          status |-> redirect.statusCode, has |-> redirect.has, missing |-> redirect.missing,
          origin |-> IF redirect.priority THEN "priorityRedirect" ELSE "redirect"],
         redirect.priority, [continue |-> TRUE])

PriorityRedirects(redirects) ==
    LET selected == SelectSeq(redirects, LAMBDA r : r.priority)
    IN [i \in 1..Len(selected) |-> RedirectRoute(selected[i])]

NonPriorityRedirects(redirects) ==
    LET selected == SelectSeq(redirects, LAMBDA r : ~r.priority)
    IN [i \in 1..Len(selected) |-> RedirectRoute(selected[i])]

HeaderRoute(route) ==
    With([src |-> route.sourceRegex, headers |-> route.headers, continue |-> TRUE,
          has |-> route.has, missing |-> route.missing, origin |-> "header"],
         route.priority, [important |-> TRUE])

HeaderRoutes(headers) == [i \in 1..Len(headers) |-> HeaderRoute(headers[i])]

\* the src of the synthetic _next/data 404 route
NextData404Route(config) ==
    [src |-> PosixJoin(<<"/", config.basePath, "_next/data/(.*)">>),
     dest |-> PosixJoin(<<"/", config.basePath, "404">>),
     status |-> 404, check |-> TRUE, origin |-> "nextData404"]

DynamicRouteRoute(route) ==
    [src |-> route.sourceRegex, dest |-> route.destination, check |-> TRUE,
     has |-> route.has, missing |-> route.missing, origin |-> "dynamicRoute"]

\* variant: the loop without the addedNextData404Route test
RECURSIVE DynamicRoutesLoopWithoutFlag(_, _, _, _, _)
DynamicRoutesLoopWithoutFlag(todo, config, hasPagesDir, hasMiddleware, acc) ==
    IF Len(todo) = 0 THEN acc
    ELSE LET route == Head(todo)
             addGuard == /\ hasPagesDir /\ ~hasMiddleware
                         /\ ~Includes(route.sourceRegex, "_next/data")
             list == (IF addGuard THEN Append(acc.dynamicRoutes, NextData404Route(config))
                      ELSE acc.dynamicRoutes)
         IN DynamicRoutesLoopWithoutFlag(Tail(todo), config, hasPagesDir, hasMiddleware,
                [dynamicRoutes |-> Append(list, DynamicRouteRoute(route)),
                 addedNextData404Route |-> acc.addedNextData404Route \/ addGuard])

\* the loop over routes.dynamicRoutes: the list built so far and the flag
RECURSIVE DynamicRoutesLoop(_, _, _, _, _)
DynamicRoutesLoop(todo, config, hasPagesDir, hasMiddleware, acc) ==
    IF Len(todo) = 0 THEN acc
    ELSE LET route == Head(todo)
             addGuard == /\ hasPagesDir /\ ~hasMiddleware
                         /\ ~Includes(route.sourceRegex, "_next/data")
                         /\ ~acc.addedNextData404Route
             list == (IF addGuard THEN Append(acc.dynamicRoutes, NextData404Route(config))
                      ELSE acc.dynamicRoutes)
         IN DynamicRoutesLoop(Tail(todo), config, hasPagesDir, hasMiddleware,
                [dynamicRoutes |-> Append(list, DynamicRouteRoute(route)),
                 addedNextData404Route |-> acc.addedNextData404Route \/ addGuard])

\* src shared by the wildcard and default-locale rewrites
NonLocalePathSrc(config, tail) ==
    "^" \o PosixJoin(<<"/", config.basePath, "/">>) \o "(?!(?:_next/.*|"
        \o EscapedLocales(config) \o ")(?:/.*|$))" \o tail

BasePathPrefix(config) ==
    IF config.basePath # "" /\ config.basePath # "/"
    THEN PosixJoin(<<"/", config.basePath>>) ELSE ""

LocaleWildcardRoutes(config) ==
    <<[src |-> NonLocalePathSrc(config, "$"),
       dest |-> BasePathPrefix(config) \o "$wildcard"
                    \o (IF config.trailingSlash THEN "/" ELSE ""),
       continue |-> TRUE, origin |-> "localeWildcard"],
      [src |-> NonLocalePathSrc(config, "(.*)$"),
       dest |-> BasePathPrefix(config) \o "$wildcard/$1",
       continue |-> TRUE, origin |-> "localeWildcard"]>>

Scheme(item) == "http" \o (IF item.http THEN "" ELSE "s") \o "://"

\* config.i18n.domains.reduce(...): later entries overwrite earlier ones
RECURSIVE DomainRedirectMap(_, _)
DomainRedirectMap(domains, prev) ==
    IF Len(domains) = 0 THEN prev
    ELSE LET item == Head(domains)
             own == (item.defaultLocale :> (Scheme(item) \o item.domain \o "/"))
             others == [l \in {item.locales[i] : i \in 1..Len(item.locales)} |->
                           Scheme(item) \o item.domain \o "/" \o l]
         IN DomainRedirectMap(Tail(domains), others @@ own @@ prev)

\* variant: the domain redirect emitted without looking at localeDetection
LocaleDomainRedirectRoutesAnyDetection(config) ==
    LET i18n == config.i18n[1]
    IN IF Len(i18n.domains) > 0
       THEN <<[src |-> "^" \o PosixJoin(<<"/", config.basePath>>) \o "/?(?:"
                           \o EscapedLocales(config) \o ")?/?$",
               locale |-> [redirect |-> DomainRedirectMap(i18n.domains, <<>>),
                           cookie |-> "NEXT_LOCALE"],
               continue |-> TRUE, origin |-> "localeDomainRedirect"]>>
       ELSE <<>>

LocaleDomainRedirectRoutes(config) ==
    LET i18n == config.i18n[1]
    IN IF Len(i18n.domains) > 0 /\ i18n.localeDetection # FALSE
       THEN <<[src |-> "^" \o PosixJoin(<<"/", config.basePath>>) \o "/?(?:"
                           \o EscapedLocales(config) \o ")?/?$",
               locale |-> [redirect |-> DomainRedirectMap(i18n.domains, <<>>),
                           cookie |-> "NEXT_LOCALE"],
               continue |-> TRUE, origin |-> "localeDomainRedirect"]>>
       ELSE <<>>

LocaleRedirectRoutes(config) ==
    LET i18n == config.i18n[1]
    IN IF i18n.localeDetection # FALSE
       THEN <<[src |-> "/",
               locale |-> [redirect |->
                               [l \in {i18n.locales[i] : i \in 1..Len(i18n.locales)} |->
                                   IF l = i18n.defaultLocale THEN "/" ELSE "/" \o l],
                           cookie |-> "NEXT_LOCALE"],
               continue |-> TRUE, origin |-> "localeRedirect"]>>
       ELSE <<>>

\* the default-locale rewrite pair; flag is continue before the filesystem
\* and check in the miss phase
DefaultLocaleRewrites(config, flag, origin) ==
    LET i18n == config.i18n[1]
    IN <<[src |-> "^" \o PosixJoin(<<"/", config.basePath>>) \o "$",
          dest |-> PosixJoin(<<"/", config.basePath, i18n.defaultLocale>>),
          origin |-> origin] @@ flag,
         [src |-> NonLocalePathSrc(config, "(.*)$"),
          dest |-> PosixJoin(<<"/", config.basePath, i18n.defaultLocale>>) \o "/$1",
          origin |-> origin] @@ flag>>

LocaleBlock(config) ==
    IF HasI18n(config)
    THEN LocaleWildcardRoutes(config) \o LocaleDomainRedirectRoutes(config)
             \o LocaleRedirectRoutes(config)
             \o DefaultLocaleRewrites(config, [continue |-> TRUE], "defaultLocalePrefix")
    ELSE <<>>

RevalidateBypass == <<[type |-> "header", key |-> "x-prerender-revalidate"]>>

Literal404Routes(config) ==
    IF HasI18n(config)
    THEN <<[src |-> PosixJoin(<<"/", config.basePath, "/">>) \o "(?:"
                        \o InlineEscapedLocales(config) \o ")?[/]?404/?",
            status |-> 404, continue |-> TRUE, missing |-> RevalidateBypass,
            origin |-> "literal404"]>>
    ELSE <<[src |-> PosixJoin(<<"/", config.basePath, "404/?">>),
            status |-> 404, continue |-> TRUE, missing |-> RevalidateBypass,
            origin |-> "literal404"]>>

Literal500Routes(config) ==
    IF HasI18n(config)
    THEN <<[src |-> PosixJoin(<<"/", config.basePath, "/">>) \o "(?:"
                        \o InlineEscapedLocales(config) \o ")?[/]?500/?",
            status |-> 500, continue |-> TRUE, origin |-> "literal500"]>>
    ELSE <<[src |-> PosixJoin(<<"/", config.basePath, "500/?">>),
            status |-> 500, continue |-> TRUE, origin |-> "literal500"]>>

RscHeader == <<[type |-> "header", key |-> "rsc", value |-> "1"]>>

RscVary == ("vary" :> "RSC, Next-Router-State-Tree, Next-Router-Prefetch")

AppRscRoutes(config, hasAppDir) ==
    IF hasAppDir
    THEN <<[src |-> "^" \o PosixJoin(<<"/", config.basePath, "/?">>),
            has |-> RscHeader,
            dest |-> PosixJoin(<<"/", config.basePath, "/index.rsc">>),
            headers |-> RscVary, continue |-> TRUE, override |-> TRUE, origin |-> "appRsc"],
           [src |-> "^" \o PosixJoin(<<"/", config.basePath, "/((?!.+\\.rsc).+?)(?:/)?$">>),
            has |-> RscHeader,
            dest |-> PosixJoin(<<"/", config.basePath, "/$1.rsc">>),
            headers |-> RscVary, continue |-> TRUE, override |-> TRUE, origin |-> "appRsc"]>>
    ELSE <<>>

BasePathImageRoutes(config) ==
    IF config.basePath # ""
    THEN <<[src |-> PosixJoin(<<"/", config.basePath, "_next/image/?">>),
            dest |-> "/_next/image", check |-> TRUE, origin |-> "basePathImage"]>>
    ELSE <<>>

NextDataNoopRoutes(config, hasMiddleware) ==
    IF ~hasMiddleware
    THEN <<[src |-> PosixJoin(<<"/", config.basePath, "_next/data/(.*)">>),
            dest |-> PosixJoin(<<"/", config.basePath, "_next/data/$1">>),
            check |-> TRUE, origin |-> "nextDataNoop"]>>
    ELSE <<>>

IndexRscRoutes(config, hasAppDir) ==
    IF hasAppDir
    THEN <<[src |-> PosixJoin(<<"/", config.basePath, "/index(\\.action|\\.rsc)">>),
            dest |-> PosixJoin(<<"/", config.basePath>>),
            continue |-> TRUE, origin |-> "indexRsc"]>>
    ELSE <<>>

RscRepairRoutes(config, hasAppDir) ==
    IF hasAppDir
    THEN <<[src |-> PosixJoin(<<"/", config.basePath, "/\\.rsc$">>),
            dest |-> PosixJoin(<<"/", config.basePath, "/index.rsc">>),
            check |-> TRUE, origin |-> "rscRepair"],
           [src |-> PosixJoin(<<"/", config.basePath, "(.+)/\\.rsc$">>),
            dest |-> PosixJoin(<<"/", config.basePath, "$1.rsc">>),
            check |-> TRUE, origin |-> "rscRepair"]>>
    ELSE <<>>

Directory404Route(config) ==
    [src |-> PosixJoin(<<"/", config.basePath, ".*">>), status |-> 404,
     origin |-> "directory404"]

StaticNotFoundRoute(config) ==
    [src |-> PosixJoin(<<"/", config.basePath, "_next/static/.+">>),
     status |-> 404, check |-> TRUE,
     dest |-> PosixJoin(<<"/", config.basePath, "_next/static/not-found.txt">>),
     headers |-> ("content-type" :> "text/plain; charset=utf-8"),
     origin |-> "staticNotFound"]

\* the miss-phase locale rules: the default-locale pair when localeDetection
\* is false, then the rules that strip the locale prefix
LocalePrefixStripRoutes(config) ==
    IF HasI18n(config)
    THEN LET i18n == config.i18n[1]
         IN (IF i18n.localeDetection = FALSE
             THEN DefaultLocaleRewrites(config, [check |-> TRUE], "defaultLocalePrefixFallback")
             ELSE <<>>)
            \o <<[src |-> PosixJoin(<<"/", config.basePath,
                                       escapeStringRegexp(i18n.defaultLocale)>>),
                  dest |-> "/", check |-> TRUE, origin |-> "localePrefixStrip"],
                 [src |-> "^" \o PosixJoin(<<"/", config.basePath>>) \o "/?(?:"
                              \o EscapedLocales(config) \o ")/(.*)",
                  dest |-> PosixJoin(<<"/", config.basePath, "/">>) \o "$1",
                  check |-> TRUE, origin |-> "localePrefixStrip"]>>
    ELSE <<>>

SegmentPrefetchRoutes(shouldHandlePrefetchRsc, shouldHandleSegmentPrefetches) ==
    IF shouldHandleSegmentPrefetches
    THEN <<[src |-> "^/(?<path>.+)(?<rscSuffix>\\.segments/.+\\.segment\\.rsc)(?:/)?$",
            dest |-> "/$path" \o (IF shouldHandlePrefetchRsc THEN ".prefetch.rsc" ELSE ".rsc"),
            check |-> TRUE, origin |-> "segmentPrefetch"]>>
    ELSE <<>>

MiddlewareDataRoutes(config, escapedBuildId, hasMiddleware) ==
    IF hasMiddleware
    THEN LET src == "^" \o PosixJoin(<<"/", config.basePath, "/_next/data/", escapedBuildId,
                                       "/(.*).json">>)
         IN <<[src |-> src, headers |-> ("x-nextjs-matched-path" :> "/$1"),
               continue |-> TRUE, override |-> TRUE, origin |-> "middlewareData"],
              [src |-> src, dest |-> "__next_data_catchall", origin |-> "middlewareData"]>>
    ELSE <<>>

MAX_AGE_ONE_YEAR == 31536000

HitRoutes(config, escapedBuildId) ==
    <<[src |-> PosixJoin(<<"/", config.basePath,
                           "_next/static/(?:[^/]+/pages|pages|chunks|runtime|css|image|media|"
                               \o escapedBuildId \o ")/.+">>),
       headers |-> ("cache-control" :>
                        ("public,max-age=" \o ToString(MAX_AGE_ONE_YEAR) \o ",immutable")),
       continue |-> TRUE, important |-> TRUE, origin |-> "immutableCache"],
      [src |-> IF config.basePath # "" /\ config.basePath # "/"
               THEN PosixJoin(<<"/", config.basePath, "/?(?:index)?(?:/)?$">>)
               ELSE "/(?:index)?(?:/)?$",
       headers |-> ("x-matched-path" :> "/"),
       continue |-> TRUE, important |-> TRUE, origin |-> "matchedPath"],
      [src |-> PosixJoin(<<"/", config.basePath, "/((?!index$).*?)(?:/)?$">>),
       headers |-> ("x-matched-path" :> "/$1"),
       continue |-> TRUE, important |-> TRUE, origin |-> "matchedPath"]>>

\* src of the error-phase rules that name the locale
NextLocaleSrc(config) ==
    PosixJoin(<<"/", config.basePath, "/">>) \o "(?<nextLocale>"
        \o EscapedLocales(config) \o ")(/.*|$)"

\* src of the single error-phase rule without i18n
BasePathCatchAllSrc(config) ==
    PosixJoin(<<"/", config.basePath,
                (IF config.basePath # "" /\ config.basePath # "/" THEN "?" ELSE "") \o ".*">>)

\* variant: the 404 output preferred to the _not-found output
NotFoundPath404First(notFound, has404) ==
    IF has404 THEN "/404" ELSE IF notFound THEN "/_not-found" ELSE "/_error"

NotFoundPath(notFound, has404) ==
    IF notFound THEN "/_not-found" ELSE IF has404 THEN "/404" ELSE "/_error"

NotFoundRoutes(config, notFoundPath) ==
    IF HasI18n(config)
    THEN <<[src |-> NextLocaleSrc(config),
            dest |-> PosixJoin(<<"/", config.basePath, "/$nextLocale", notFoundPath>>),
            status |-> 404, caseSensitive |-> TRUE, origin |-> "notFound"],
           [src |-> PosixJoin(<<"/", config.basePath, ".*">>),
            dest |-> PosixJoin(<<"/", config.basePath,
                                 "/" \o config.i18n[1].defaultLocale, notFoundPath>>),
            status |-> 404, origin |-> "notFound"]>>
    ELSE <<[src |-> BasePathCatchAllSrc(config),
            dest |-> PosixJoin(<<"/", config.basePath, notFoundPath>>),
            status |-> 404, origin |-> "notFound"]>>

\* variant: the locale-aware pair whenever i18n is set
ServerErrorRoutesLocaleAwareWithI18n(config, has500) ==
    LET errorPath == IF has500 THEN "/500" ELSE "/_error"
    IN IF HasI18n(config)
       THEN <<[src |-> NextLocaleSrc(config),
               dest |-> PosixJoin(<<"/", config.basePath, "/$nextLocale", errorPath>>),
               status |-> 500, caseSensitive |-> TRUE, origin |-> "serverError"],
              [src |-> PosixJoin(<<"/", config.basePath, ".*">>),
               dest |-> PosixJoin(<<"/", config.basePath,
                                    "/" \o config.i18n[1].defaultLocale, errorPath>>),
               status |-> 500, origin |-> "serverError"]>>
       ELSE <<[src |-> BasePathCatchAllSrc(config),
               dest |-> PosixJoin(<<"/", config.basePath, errorPath>>),
               status |-> 500, origin |-> "serverError"]>>

ServerErrorRoutes(config, has500) ==
    IF HasI18n(config) /\ has500
    THEN <<[src |-> NextLocaleSrc(config),
            dest |-> PosixJoin(<<"/", config.basePath, "/$nextLocale/500">>),
            status |-> 500, caseSensitive |-> TRUE, origin |-> "serverError"],
           [src |-> PosixJoin(<<"/", config.basePath, ".*">>),
            dest |-> PosixJoin(<<"/", config.basePath,
                                 "/" \o config.i18n[1].defaultLocale \o "/500">>),
            status |-> 500, origin |-> "serverError"]>>
    ELSE <<[src |-> BasePathCatchAllSrc(config),
            dest |-> PosixJoin(<<"/", config.basePath,
                                 IF has500 THEN "/500" ELSE "/_error">>),
            status |-> 500, origin |-> "serverError"]>>

(***************************************************************************)
(* index.ts: the facts derived from the outputs                            *)
(***************************************************************************)
HasMiddleware(outputs) == Len(outputs.middleware) > 0

HasAppDir(outputs) == Len(outputs.appPages) > 0 \/ Len(outputs.appRoutes) > 0

HasPagesDir(outputs) == Len(outputs.pages) > 0 \/ Len(outputs.pagesApi) > 0

DataResolvingWithEitherOne(outputs) == HasPagesDir(outputs) \/ HasMiddleware(outputs)

ShouldHandleMiddlewareDataResolving(outputs) == HasPagesDir(outputs) /\ HasMiddleware(outputs)

ShouldHandlePrefetchRsc(config) == config.experimental.cacheComponents

ShouldHandleSegmentPrefetches(config) ==
    config.experimental.clientSegmentCache \/ config.experimental.cacheComponents

FunctionOutputs(outputs) ==
    outputs.appPages \o outputs.appRoutes \o outputs.pages \o outputs.pagesApi

\* some output's pathname ends with the suffix
AnyPathnameEndsWith(outputList, suffix) ==
    \E i \in 1..Len(outputList) : EndsWith(outputList[i].pathname, suffix)

OutputFact(outputs, suffix) ==
    \/ AnyPathnameEndsWith(FunctionOutputs(outputs), suffix)
    \/ AnyPathnameEndsWith(outputs.staticFiles, suffix)

NodeOutputs(outputs) == SelectSeq(FunctionOutputs(outputs), LAMBDA o : o.runtime = "nodejs")

EdgeOutputs(outputs) == SelectSeq(FunctionOutputs(outputs), LAMBDA o : o.runtime = "edge")

\* nodeOutputsParentMap: id -> output, for the nodejs outputs
RECURSIVE ParentMap(_, _)
ParentMap(nodeOutputs, map) ==
    IF Len(nodeOutputs) = 0 THEN map
    ELSE ParentMap(Tail(nodeOutputs), (Head(nodeOutputs).id :> Head(nodeOutputs)) @@ map)

\* the condition under which a prerender enters prerenderFallbackFalseMap
IsFallbackFalsePrerender(prerender) ==
    /\ prerender.parentFallbackMode = "false"
    /\ ~Includes(prerender.pathname, "_next/data")
    /\ ~EndsWith(prerender.pathname, ".rsc")

\* variant: a prerender without parent output is skipped instead of thrown on
RECURSIVE PrerenderMapLoopSkipping(_, _, _, _)
PrerenderMapLoopSkipping(prerenders, parentMap, basePath, map) ==
    IF Len(prerenders) = 0 THEN [threw |-> FALSE, map |-> map]
    ELSE LET prerender == Head(prerenders) IN
         IF \/ ~IsFallbackFalsePrerender(prerender)
            \/ prerender.parentOutputId \notin DOMAIN parentMap
         THEN PrerenderMapLoopSkipping(Tail(prerenders), parentMap, basePath, map)
         ELSE LET parentPage == SubstringFrom(parentMap[prerender.parentOutputId].pathname,
                                              Len(basePath))
                  path == SubstringFrom(prerender.pathname, Len(basePath))
                  currentMap == IF parentPage \in DOMAIN map THEN map[parentPage] ELSE <<>>
              IN PrerenderMapLoopSkipping(Tail(prerenders), parentMap, basePath,
                     (parentPage :> Append(currentMap, path)) @@ map)

\* the loop over outputs.prerenders: the map built so far, or the throw
RECURSIVE PrerenderMapLoop(_, _, _, _)
PrerenderMapLoop(prerenders, parentMap, basePath, map) ==
    IF Len(prerenders) = 0 THEN [threw |-> FALSE, map |-> map]
    ELSE LET prerender == Head(prerenders) IN
         IF ~IsFallbackFalsePrerender(prerender)
         THEN PrerenderMapLoop(Tail(prerenders), parentMap, basePath, map)
         ELSE IF prerender.parentOutputId \notin DOMAIN parentMap
              THEN [threw |-> TRUE, map |-> map]
              ELSE LET parentPage == SubstringFrom(parentMap[prerender.parentOutputId].pathname,
                                                   Len(basePath))
                       path == SubstringFrom(prerender.pathname, Len(basePath))
                       currentMap == IF parentPage \in DOMAIN map THEN map[parentPage] ELSE <<>>
                   IN PrerenderMapLoop(Tail(prerenders), parentMap, basePath,
                          (parentPage :> Append(currentMap, path)) @@ map)

(***************************************************************************)
(* index.ts: vercelConfig.routes                                           *)
(***************************************************************************)
ConvertedRewritesAllGroupsExtended(rewrites, config) ==
    LET converted == normalizeRewrites(rewrites)
        prefetchRsc == ShouldHandlePrefetchRsc(config)
        segments == ShouldHandleSegmentPrefetches(config)
    IN IF prefetchRsc \/ segments
       THEN [g \in {"beforeFiles", "afterFiles", "fallback"} |->
                modifyWithRewriteHeaders(converted[g], TRUE, prefetchRsc, segments)]
       ELSE converted

ConvertedRewritesAlwaysModified(rewrites, config) ==
    LET converted == normalizeRewrites(rewrites)
    IN [g \in {"beforeFiles", "afterFiles", "fallback"} |->
           modifyWithRewriteHeaders(converted[g], g = "afterFiles",
                                    ShouldHandlePrefetchRsc(config),
                                    ShouldHandleSegmentPrefetches(config))]

\* convertedRewrites: normalizeRewrites, then modifyWithRewriteHeaders on each
\* group when a prefetch flag is set
ConvertedRewrites(rewrites, config) ==
    LET converted == normalizeRewrites(rewrites)
        prefetchRsc == ShouldHandlePrefetchRsc(config)
        segments == ShouldHandleSegmentPrefetches(config)
    IN IF prefetchRsc \/ segments
       THEN [beforeFiles |-> modifyWithRewriteHeaders(converted.beforeFiles, FALSE,
                                                      prefetchRsc, segments),
             afterFiles |-> modifyWithRewriteHeaders(converted.afterFiles, TRUE,
                                                     prefetchRsc, segments),
             fallback |-> modifyWithRewriteHeaders(converted.fallback, FALSE,
                                                   prefetchRsc, segments)]
       ELSE converted

DynamicRoutes(b, initialFlag) ==
    DynamicRoutesLoop(b.routes.dynamicRoutes, b.config, HasPagesDir(b.outputs),
                      HasMiddleware(b.outputs),
                      [dynamicRoutes |-> <<>>, addedNextData404Route |-> initialFlag])

\* the rules ahead of { handle: 'filesystem' }
BeforeFilesystemRoutes(b, mwRoutes, rewrites) ==
    LET config == b.config
        dataResolving == ShouldHandleMiddlewareDataResolving(b.outputs)
    IN PriorityRedirects(b.routes.redirects)
           \o normalizeNextDataRoutes(config, b.buildId, dataResolving, TRUE)
           \o LocaleBlock(config)
           \o HeaderRoutes(b.routes.headers)
           \o NonPriorityRedirects(b.routes.redirects)
           \o mwRoutes
           \o rewrites.beforeFiles
           \o Literal404Routes(config)
           \o Literal500Routes(config)
           \o denormalizeNextDataRoutes(config, b.buildId, dataResolving, TRUE)
           \o AppRscRoutes(config, HasAppDir(b.outputs))

\* variant: the afterFiles rewrites spread ahead of the filesystem marker
FilesystemRoutesAfterFilesFirst(b, rewrites) ==
    LET config == b.config
    IN rewrites.afterFiles
           \o <<Handle("filesystem")>>
           \o BasePathImageRoutes(config)
           \o normalizeNextDataRoutes(config, b.buildId,
                                      ShouldHandleMiddlewareDataResolving(b.outputs), FALSE)
           \o NextDataNoopRoutes(config, HasMiddleware(b.outputs))
           \o IndexRscRoutes(config, HasAppDir(b.outputs))
           \o RscRepairRoutes(config, HasAppDir(b.outputs))

\* { handle: 'filesystem' } up to { handle: 'resource' }
FilesystemRoutes(b, rewrites) ==
    LET config == b.config
    IN <<Handle("filesystem")>>
           \o BasePathImageRoutes(config)
           \o normalizeNextDataRoutes(config, b.buildId,
                                      ShouldHandleMiddlewareDataResolving(b.outputs), FALSE)
           \o NextDataNoopRoutes(config, HasMiddleware(b.outputs))
           \o IndexRscRoutes(config, HasAppDir(b.outputs))
           \o rewrites.afterFiles
           \o RscRepairRoutes(config, HasAppDir(b.outputs))

\* variant: the resource marker emitted only when there are fallback rewrites
ResourceRoutesOnlyWithFallback(b, rewrites) ==
    (IF Len(rewrites.fallback) > 0 THEN <<Handle("resource")>> ELSE <<>>)
        \o rewrites.fallback \o <<Directory404Route(b.config)>>

\* variant: the fallback rewrites spread ahead of the resource marker
ResourceRoutesFallbackFirst(b, rewrites) ==
    rewrites.fallback \o <<Handle("resource"), Directory404Route(b.config)>>

\* { handle: 'resource' } up to { handle: 'miss' }
ResourceRoutes(b, rewrites) ==
    <<Handle("resource")>> \o rewrites.fallback \o <<Directory404Route(b.config)>>

\* { handle: 'miss' } up to { handle: 'rewrite' }
MissRoutes(b) ==
    <<Handle("miss"), StaticNotFoundRoute(b.config)>>
        \o LocalePrefixStripRoutes(b.config)
        \o SegmentPrefetchRoutes(ShouldHandlePrefetchRsc(b.config),
                                 ShouldHandleSegmentPrefetches(b.config))

\* variant: the denormalization after { handle: 'rewrite' } with isOverride
RewriteRoutesOverriding(b, dynamicRoutes) ==
    <<Handle("rewrite")>>
        \o denormalizeNextDataRoutes(b.config, b.buildId,
                                     ShouldHandleMiddlewareDataResolving(b.outputs), TRUE)
        \o dynamicRoutes
        \o MiddlewareDataRoutes(b.config, escapeStringRegexp(b.buildId),
                                HasMiddleware(b.outputs))

\* { handle: 'rewrite' } up to { handle: 'hit' }
RewriteRoutes(b, dynamicRoutes) ==
    <<Handle("rewrite")>>
        \o denormalizeNextDataRoutes(b.config, b.buildId,
                                     ShouldHandleMiddlewareDataResolving(b.outputs), FALSE)
        \o dynamicRoutes
        \o MiddlewareDataRoutes(b.config, escapeStringRegexp(b.buildId),
                                HasMiddleware(b.outputs))

\* { handle: 'hit' } to the end of the list
HitAndErrorRoutes(b, notFound, has500) ==
    <<Handle("hit")>>
        \o HitRoutes(b.config, escapeStringRegexp(b.buildId))
        \o <<Handle("error")>>
        \o NotFoundRoutes(b.config, notFound)
        \o ServerErrorRoutes(b.config, has500)

\* variant: the rewrite phase emitted ahead of the miss phase
VercelConfigRoutesRewriteBeforeMiss(b, mwRoutes, dynamicRoutes, notFound, has500) ==
    LET rewrites == ConvertedRewrites(b.routes.rewrites, b.config)
    IN BeforeFilesystemRoutes(b, mwRoutes, rewrites)
           \o FilesystemRoutes(b, rewrites)
           \o ResourceRoutes(b, rewrites)
           \o RewriteRoutes(b, dynamicRoutes)
           \o MissRoutes(b)
           \o HitAndErrorRoutes(b, notFound, has500)

VercelConfigRoutes(b, mwRoutes, dynamicRoutes, notFound, has500) ==
    LET rewrites == ConvertedRewrites(b.routes.rewrites, b.config)
    IN BeforeFilesystemRoutes(b, mwRoutes, rewrites)
           \o FilesystemRoutes(b, rewrites)
           \o ResourceRoutes(b, rewrites)
           \o MissRoutes(b)
           \o RewriteRoutes(b, dynamicRoutes)
           \o HitAndErrorRoutes(b, notFound, has500)

(***************************************************************************)
(* node-handler.ts: the function in ___next_launcher.cjs.  The launcher    *)
(* reads routes-manifest.json and app-path-routes-manifest.json of the     *)
(* build; prerenderFallbackFalseMap is the value getHandlerSource put in   *)
(* its source.                                                             *)
(***************************************************************************)
\* s.toLowerCase()
RECURSIVE ToLowerCase(_)
ToLowerCase(s) ==
    IF Len(s) = 0 THEN ""
    ELSE LET c == CharAt(s, 1)
             upper == "ABCDEFGHIJKLMNOPQRSTUVWXYZ"
             lower == IF Includes(upper, c)
                      THEN CharAt("abcdefghijklmnopqrstuvwxyz", IndexOf(upper, c) + 1) ELSE c
         IN lower \o ToLowerCase(SubSeq(s, 2, Len(s)))

\* s.replace(/<suffix>$/, '')
StripSuffix(s, suffix) ==
    IF EndsWith(s, suffix) THEN SubSeq(s, 1, Len(s) - Len(suffix)) ELSE s

\* the routes of routes-manifest.json: a regex is kept as its kind and the
\* literal text ahead of its group
ManifestRoute(output, basePath) ==
    LET page == SubstringFrom(output.pathname, Len(basePath))
        bracket == IndexOf(page, "[")
    IN [page |-> page,
        regex |-> IF bracket = -1 THEN [kind |-> "static", prefix |-> page]
                  ELSE IF Includes(page, "[...")
                       THEN [kind |-> "catchAll", prefix |-> Substring(page, 0, bracket)]
                       ELSE [kind |-> "dynamic", prefix |-> Substring(page, 0, bracket)]]

ManifestRoutes(b) ==
    LET outputs == FunctionOutputs(b.outputs)
    IN [i \in 1..Len(outputs) |-> ManifestRoute(outputs[i], b.config.basePath)]

StaticRoutes(b) == SelectSeq(ManifestRoutes(b), LAMBDA r : r.regex.kind = "static")

DynamicManifestRoutes(b) == SelectSeq(ManifestRoutes(b), LAMBDA r : r.regex.kind # "static")

\* route.regex.test(urlPathname) for ^<page>(?:/)?$, ^<prefix>([^/]+?)(?:/)?$
\* and ^<prefix>(.+?)(?:/)?$
RegexTest(regex, urlPathname) ==
    IF regex.kind = "static"
    THEN urlPathname = regex.prefix \/ urlPathname = regex.prefix \o "/"
    ELSE /\ StartsWith(urlPathname, regex.prefix)
         /\ LET rest == StripSuffix(SubstringFrom(urlPathname, Len(regex.prefix)), "/")
            IN /\ Len(rest) > 0
               /\ regex.kind = "dynamic" => ~Includes(rest, "/")

\* inversedAppRoutesManifest: normalized app path -> original path
InversedAppRoutesManifest(b) ==
    [page \in {SubstringFrom(b.outputs.appPages[i].pathname, Len(b.config.basePath)) :
                  i \in 1..Len(b.outputs.appPages)} |-> page \o "/page"]

\* inversedAppRoutesManifest[key] || key
OriginalPage(manifest, key) == IF key \in DOMAIN manifest THEN manifest[key] ELSE key

\* config.i18n?.locales of the manifest
ManifestLocales(b) == IF HasI18n(b.config) THEN b.config.i18n[1].locales ELSE <<>>

\* normalizeLocalePath, for a pathname with a leading "/"
normalizeLocalePath(pathname, hasLocales, locales) ==
    IF ~hasLocales THEN pathname
    ELSE LET segments == SplitSlash(pathname) IN
         IF Len(segments) < 2 \/ segments[2] = "" THEN pathname
         ELSE LET segment == ToLowerCase(segments[2])
                  found == {i \in 1..Len(locales) : ToLowerCase(locales[i]) = segment}
              IN IF found = {} THEN pathname
                 ELSE LET index == CHOOSE i \in found : \A j \in found : i <= j
                          rest == SubstringFrom(pathname, Len(locales[index]) + 1)
                      IN IF rest = "" THEN "/" ELSE rest

\* normalizeDataPath
normalizeDataPath(pathname) ==
    IF ~StartsWith(pathname, "/_next/data") THEN pathname
    ELSE LET starts == {i \in 1..(Len(pathname) - 12) :
                           /\ SubSeq(pathname, i, i + 11) = "/_next/data/"
                           /\ CharAt(pathname, i + 12) # "/"}
             removed ==
                 IF starts = {} THEN pathname
                 ELSE LET at == CHOOSE i \in starts : \A j \in starts : i <= j
                          after == SubstringFrom(pathname, at + 11)
                          slash == IndexOf(after, "/")
                      IN SubSeq(pathname, 1, at - 1)
                             \o (IF slash = -1 THEN "" ELSE SubstringFrom(after, slash))
             stripped == StripSuffix(removed, ".json")
         IN IF stripped = "/index" THEN "/" ELSE stripped

\* urlPathname.replace(/\.segments(\/.*)\.segment\.rsc$/, '')
StripSegmentSuffix(s) ==
    LET starts == {i \in 1..(Len(s) - 21) :
                      /\ SubSeq(s, i, i + 9) = ".segments/"
                      /\ EndsWith(s, ".segment.rsc")}
    IN IF starts = {} THEN s
       ELSE SubSeq(s, 1, (CHOOSE i \in starts : \A j \in starts : i <= j) - 1)

\* the three suffix regexes of matchUrlToPage, applied in turn
StripRscSuffixes(s) == StripSuffix(StripSuffix(StripSegmentSuffix(s), ".prefetch.rsc"), ".rsc")

\* fallbackFalseMap.includes(path)
ListIncludes(list, path) == \E i \in 1..Len(list) : list[i] = path

\* variant: the loop looks the path up without its locale-including form
RECURSIVE MatchLoopWithoutLocaleForm(_, _, _, _, _)
MatchLoopWithoutLocaleForm(routeList, index, map, urlPathname, urlPathnameWithLocale) ==
    IF index > Len(routeList) THEN 0
    ELSE LET route == routeList[index] IN
         IF ~RegexTest(route.regex, urlPathname)
         THEN MatchLoopWithoutLocaleForm(routeList, index + 1, map, urlPathname,
                                         urlPathnameWithLocale)
         ELSE IF /\ route.page \in DOMAIN map
                 /\ ~ListIncludes(map[route.page], urlPathname)
              THEN MatchLoopWithoutLocaleForm(routeList, index + 1, map, urlPathname,
                                              urlPathnameWithLocale)
              ELSE index

\* the loop of matchUrlToPage over [...staticRoutes, ...dynamicRoutes]:
\* the index of the route returned, 0 when the loop ends without one
RECURSIVE MatchLoop(_, _, _, _, _)
MatchLoop(routeList, index, map, urlPathname, urlPathnameWithLocale) ==
    IF index > Len(routeList) THEN 0
    ELSE LET route == routeList[index] IN
         IF ~RegexTest(route.regex, urlPathname)
         THEN MatchLoop(routeList, index + 1, map, urlPathname, urlPathnameWithLocale)
         ELSE IF /\ route.page \in DOMAIN map
                 /\ ~(\/ ListIncludes(map[route.page], urlPathname)
                      \/ ListIncludes(map[route.page], urlPathnameWithLocale))
              THEN MatchLoop(routeList, index + 1, map, urlPathname, urlPathnameWithLocale)
              ELSE index

\* matchUrlToPage: the page returned, with the values the loop worked on
matchUrlToPage(b, map, requestPath) ==
    LET withLocale == StripRscSuffixes(normalizeDataPath(requestPath))
        localeFree == normalizeLocalePath(withLocale, HasI18n(b.config), ManifestLocales(b))
        urlPathname == IF StripSuffix(localeFree, "/") = "" THEN "/"
                       ELSE StripSuffix(localeFree, "/")
        routeList == StaticRoutes(b) \o DynamicManifestRoutes(b)
        index == MatchLoop(routeList, 1, map, urlPathname, withLocale)
        manifest == InversedAppRoutesManifest(b)
    IN [request |-> requestPath, urlPathname |-> urlPathname,
        urlPathnameWithLocale |-> withLocale, map |-> map, route |-> index,
        page |-> IF index > 0 THEN OriginalPage(manifest, routeList[index].page)
                 ELSE OriginalPage(manifest, urlPathname)]

\* the x-matched-path values sent to a launcher
RequestPaths ==
    {"/", "/posts/a", "/posts/b", "/posts/a/", "/_next/data/b-1/posts/a.json",
     "/_next/data/b-1/posts/b.json", "/_next/data/b-1/index.json", "/posts/a.rsc",
     "/posts/b.prefetch.rsc", "/posts/a.segments/x.segment.rsc", "/fr/posts/a",
     "/fr/posts/b", "/EN-us/posts/a", "/dashboard"}

(***************************************************************************)
(* The routing engine that reads config.json, as far as the data-route     *)
(* rules need it: a rule whose has/missing conditions hold and whose src   *)
(* matches the path replaces the path by its dest, $1 filled in, and, with *)
(* continue, hands the new path to the next rule.  A src is matched as the *)
(* regular expression it is written as.                                    *)
(***************************************************************************)
\* the text a regex without operators matches: its backslashes dropped
RECURSIVE Unescape(_)
Unescape(s) ==
    IF Len(s) = 0 THEN ""
    ELSE IF CharAt(s, 1) = "\\" /\ Len(s) > 1
         THEN CharAt(s, 2) \o Unescape(SubSeq(s, 3, Len(s)))
         ELSE CharAt(s, 1) \o Unescape(SubSeq(s, 2, Len(s)))

\* dest with $1 replaced by the captured text
SubstituteGroup(dest, capture) ==
    LET at == IndexOf(dest, "$1")
    IN IF at = -1 THEN dest
       ELSE Substring(dest, 0, at) \o capture \o SubstringFrom(dest, at + 2)

NoMatch == [matched |-> FALSE, capture |-> ""]

\* the match of a data-route src against a path, for the four shapes of src
\* that normalizeNextDataRoutes and denormalizeNextDataRoutes produce
RouteMatch(src, path) ==
    LET body == IF StartsWith(src, "^") THEN SubstringFrom(src, 1) ELSE src
        Literal(suffix) == Unescape(SubSeq(body, 1, Len(body) - Len(suffix)))
        Rest(suffix) == SubstringFrom(path, Len(Literal(suffix)))
    IN IF EndsWith(body, "(.*).json")
       THEN \* ^<literal>(.*).json : the longest capture that any character and json follow
            LET rest == Rest("(.*).json")
                ends == {i \in 0..(Len(rest) - 5) : SubSeq(rest, i + 2, i + 5) = "json"}
            IN IF StartsWith(path, Literal("(.*).json")) /\ ends # {}
               THEN [matched |-> TRUE,
                     capture |-> SubSeq(rest, 1, CHOOSE i \in ends : \A j \in ends : j <= i)]
               ELSE NoMatch
       ELSE IF EndsWith(body, "(?:/)?")
       THEN \* ^<literal>(?:/)? : no anchor at the end
            [matched |-> StartsWith(path, Literal("(?:/)?")), capture |-> ""]
       ELSE IF EndsWith(body, "((?!_next/)(?:.*[^/]|.*))/?$")
       THEN \* ^<literal>((?!_next/)(?:.*[^/]|.*))/?$
            LET rest == Rest("((?!_next/)(?:.*[^/]|.*))/?$")
                n == Len(rest)
            IN IF StartsWith(path, Literal("((?!_next/)(?:.*[^/]|.*))/?$"))
                      /\ ~StartsWith(rest, "_next/")
               THEN [matched |-> TRUE,
                     capture |-> IF n >= 2 /\ CharAt(rest, n) = "/" /\ CharAt(rest, n - 1) # "/"
                                 THEN SubSeq(rest, 1, n - 1) ELSE rest]
               ELSE NoMatch
       ELSE IF EndsWith(body, "$")
       THEN [matched |-> path = Literal("$"), capture |-> ""]
       ELSE NoMatch

\* the request header x-nextjs-data satisfies the has / missing of the rule
DataHeaderAllows(route, hasDataHeader) ==
    /\ ("has" \in DOMAIN route /\ route.has = HeaderCondition("x-nextjs-data")) => hasDataHeader
    /\ ("missing" \in DOMAIN route /\ route.missing = HeaderCondition("x-nextjs-data"))
           => ~hasDataHeader

\* the path after the rules, all of them continue rules, were tried in order
RECURSIVE ApplyRoutes(_, _, _)
ApplyRoutes(rules, path, hasDataHeader) ==
    IF Len(rules) = 0 THEN path
    ELSE LET route == Head(rules)
             match == RouteMatch(route.src, path)
         IN IF DataHeaderAllows(route, hasDataHeader) /\ match.matched /\ "dest" \in DOMAIN route
            THEN ApplyRoutes(Tail(rules), SubstituteGroup(route.dest, match.capture),
                             hasDataHeader)
            ELSE ApplyRoutes(Tail(rules), path, hasDataHeader)

\* canonical request paths outside _next/
CanonicalPaths == {"/", "/blog/post-1", "/blog", "/index", "/about/index", "/a.json"}

(***************************************************************************)
(* State.  The locals of one onBuildComplete call, the files it writes     *)
(* (which outlive the call) and the position of the call.                  *)
(***************************************************************************)
VARIABLES
    build,                     \* the argument of onBuildComplete
    pc,                        \* the statement the call is at
    run,                       \* which call of this process it is
    error,                     \* the error the call threw, "" if none
    started,                   \* the handlers and blocks this call has entered
    hasNotFoundOutput, has404Output, has500Output, notFoundPath,
    nodeOutputsParentMap,
    prerenderFallbackFalseMap,
    middlewareRoutes,
    addedNextData404Route,
    routes,                    \* vercelConfig.routes
    launchers,                 \* ___next_launcher.cjs per function: the map in its source
    vcConfigs,                 \* .vc-config.json per node function
    configJson,                \* output/config.json
    previousRoutes,            \* the routes of the call before this one
    handled,                   \* the last request a launcher has matched, if any
    applied,                   \* utils.ts: the argument of a call and, once made, its result
    writeLock,                 \* the promise kept for the file path, if any
    calls,                     \* the calls of writeIfNotExists made so far
    disk,                      \* the file at the path, if it exists
    fsSema,                    \* the permits of a handler's semaphore that are free
    tasks                      \* the tasks of the handler's Promise.all

vars == <<build, pc, run, error, started, hasNotFoundOutput, has404Output, has500Output,
          notFoundPath, nodeOutputsParentMap, prerenderFallbackFalseMap, middlewareRoutes,
          addedNextData404Route, routes, launchers, vcConfigs, configJson, previousRoutes,
          handled, applied, writeLock, calls, disk, fsSema, tasks>>

\* the state of the units that are followed on their own
units == <<applied, writeLock, calls, disk, fsSema, tasks>>

writing == <<writeLock, calls, disk>>

permits == <<fsSema, tasks>>

locals == <<hasNotFoundOutput, has404Output, has500Output, notFoundPath,
            nodeOutputsParentMap, prerenderFallbackFalseMap, middlewareRoutes,
            addedNextData404Route, routes>>

facts == <<hasNotFoundOutput, has404Output, has500Output, notFoundPath>>

files == <<launchers, vcConfigs, configJson>>

NoFile == [written |-> FALSE, routes |-> <<>>]

\* variant: prerenderFallbackFalseMap filled after handleNodeOutputs
StatementOrderMapAfterNodeOutputs ==
    <<"mkdir", "publicFiles", "staticOutputs", "collectOutputs", "edgeOutputs",
      "middleware", "nodeOutputs", "prerenderMap", "prerenderOutputs", "routes",
      "writeConfig", "done">>

\* the statements of onBuildComplete, in the order of the source
StatementOrder ==
    <<"mkdir", "publicFiles", "staticOutputs", "collectOutputs", "edgeOutputs",
      "prerenderMap", "middleware", "nodeOutputs", "prerenderOutputs", "routes",
      "writeConfig", "done">>

After(step) ==
    StatementOrder[(CHOOSE i \in 1..Len(StatementOrder) : StatementOrder[i] = step) + 1]

\* the locals before their declarations have run
LocalsUnset ==
    /\ hasNotFoundOutput = FALSE
    /\ has404Output = FALSE
    /\ has500Output = FALSE
    /\ notFoundPath = ""
    /\ nodeOutputsParentMap = <<>>
    /\ prerenderFallbackFalseMap = <<>>
    /\ middlewareRoutes = <<>>
    /\ addedNextData404Route = FALSE
    /\ routes = <<>>

\* the process before its first call of onBuildComplete
ProcessStart(builds) ==
    /\ build \in builds
    /\ pc = StatementOrder[1]
    /\ run = 1
    /\ error = ""
    /\ started = {}
    /\ LocalsUnset
    /\ launchers = <<>>
    /\ vcConfigs = <<>>
    /\ configJson = NoFile
    /\ previousRoutes = <<>>
    /\ handled = <<>>

\* no unit is being followed on its own
UnitsIdle ==
    /\ applied = <<>>
    /\ writeLock = <<>> /\ calls = <<>> /\ disk = <<>>
    /\ fsSema = 0 /\ tasks = <<>>

\* a call of onBuildComplete starts on one of the builds
InitOn(builds) == ProcessStart(builds) /\ UnitsIdle

Init == InitOn(Builds)

\* the locals of a call that has not declared them yet
ResetLocals ==
    /\ hasNotFoundOutput' = FALSE
    /\ has404Output' = FALSE
    /\ has500Output' = FALSE
    /\ notFoundPath' = ""
    /\ nodeOutputsParentMap' = <<>>
    /\ prerenderFallbackFalseMap' = <<>>
    /\ middlewareRoutes' = <<>>
    /\ addedNextData404Route' = FALSE
    /\ routes' = <<>>

\* the call is at statement `step`, enters it and leaves it for the next one
Run(step, name) ==
    /\ pc = step
    /\ pc' = After(step)
    /\ started' = started \cup {name}

\* the call throws: its locals are gone, the files stay
Throw(message) ==
    /\ pc' = "failed"
    /\ error' = message
    /\ started' = {}
    /\ ResetLocals
    /\ UNCHANGED <<build, run, files, previousRoutes, handled, units>>

\* await fs.mkdir(vercelOutputDir, { recursive: true })
Mkdir ==
    /\ Run("mkdir", "mkdir")
    /\ UNCHANGED <<build, run, error, locals, files, previousRoutes, handled, units>>

\* await handlePublicFiles(...)
HandlePublicFiles ==
    /\ Run("publicFiles", "handlePublicFiles")
    /\ UNCHANGED <<build, run, error, locals, files, previousRoutes, handled, units>>

\* await handleStaticOutputs(...)
HandleStaticOutputs ==
    /\ Run("staticOutputs", "handleStaticOutputs")
    /\ UNCHANGED <<build, run, error, locals, files, previousRoutes, handled, units>>

\* the two loops over the outputs and the choice of notFoundPath
CollectOutputs ==
    /\ Run("collectOutputs", "collectOutputs")
    /\ hasNotFoundOutput' = OutputFact(build.outputs, "/_not-found")
    /\ has404Output' = OutputFact(build.outputs, "/404")
    /\ has500Output' = OutputFact(build.outputs, "/500")
    /\ notFoundPath' = NotFoundPath(hasNotFoundOutput', has404Output')
    /\ nodeOutputsParentMap' = ParentMap(NodeOutputs(build.outputs), <<>>)
    /\ UNCHANGED <<build, run, error, prerenderFallbackFalseMap, middlewareRoutes,
                   addedNextData404Route, routes, files, previousRoutes, handled, units>>

\* await handleEdgeOutputs(edgeOutputs, ...)
HandleEdgeOutputs ==
    /\ Run("edgeOutputs", "handleEdgeOutputs")
    /\ UNCHANGED <<build, run, error, locals, files, previousRoutes, handled, units>>

\* the loop that fills prerenderFallbackFalseMap, or throws
BuildPrerenderFallbackFalseMap ==
    /\ pc = "prerenderMap"
    /\ LET result == PrerenderMapLoop(build.outputs.prerenders, nodeOutputsParentMap,
                                      build.config.basePath, <<>>)
       IN IF result.threw
          THEN Throw("Invariant: missing parent output")
          ELSE /\ Run("prerenderMap", "prerenderMap")
               /\ prerenderFallbackFalseMap' = result.map
               /\ UNCHANGED <<build, run, error, hasNotFoundOutput, has404Output,
                              has500Output, notFoundPath, nodeOutputsParentMap,
                              middlewareRoutes, addedNextData404Route, routes, files,
                              previousRoutes, handled, units>>

\* writeIfNotExists(handlerFilePath, getHandlerSource({ prerenderFallbackFalseMap, ... }))
\* for each output: a launcher that exists is kept
WriteLaunchers(outputList, map, existing) ==
    existing @@ [p \in {outputList[i].pathname : i \in 1..Len(outputList)} |-> map]

\* a value in a condition: AdapterOutputType members are non-empty strings
Truthy(value) == value # ""

\* output.type === AdapterOutputType.APP_PAGE || AdapterOutputType.PAGES ? 'PAGE' : 'API'
OperationType(output) ==
    IF output.type = "APP_PAGE" \/ Truthy("PAGES") THEN "PAGE" ELSE "API"

\* writeIfNotExists(path.join(functionDir, '.vc-config.json'), ...) for each
\* output: a file that exists is kept
WriteVcConfigs(outputList, isMiddleware, existing) ==
    existing @@ [p \in {outputList[i].pathname : i \in 1..Len(outputList)} |->
                    LET output == CHOOSE o \in {outputList[i] : i \in 1..Len(outputList)} :
                                      o.pathname = p
                    IN [operationType |-> OperationType(output), useWebApi |-> isMiddleware]]

\* if (outputs.middleware) middlewareRoutes = await handleMiddleware(...)
HandleMiddleware ==
    /\ pc = "middleware"
    /\ pc' = After("middleware")
    /\ IF HasMiddleware(build.outputs)
       THEN LET output == build.outputs.middleware[1]
            IN /\ started' = started \cup {"handleMiddleware"}
               /\ middlewareRoutes' = MiddlewareMatcherRoutes(output)
               /\ launchers' = IF output.runtime = "nodejs"
                               THEN WriteLaunchers(<<output>>, prerenderFallbackFalseMap,
                                                   launchers)
                               ELSE launchers
               /\ vcConfigs' = IF output.runtime = "nodejs"
                               THEN WriteVcConfigs(<<output>>, TRUE, vcConfigs)
                               ELSE vcConfigs
       ELSE UNCHANGED <<started, middlewareRoutes, launchers, vcConfigs>>
    /\ UNCHANGED <<build, run, error, hasNotFoundOutput, has404Output, has500Output,
                   notFoundPath, nodeOutputsParentMap, prerenderFallbackFalseMap,
                   addedNextData404Route, routes, configJson, previousRoutes, handled, units>>

\* await handleNodeOutputs(nodeOutputs, { prerenderFallbackFalseMap, ... })
HandleNodeOutputs ==
    /\ Run("nodeOutputs", "handleNodeOutputs")
    /\ launchers' = WriteLaunchers(NodeOutputs(build.outputs), prerenderFallbackFalseMap,
                                   launchers)
    /\ vcConfigs' = WriteVcConfigs(NodeOutputs(build.outputs), FALSE, vcConfigs)
    /\ UNCHANGED <<build, run, error, locals, configJson, previousRoutes, handled, units>>

\* await handlePrerenderOutputs(...): throws for a prerender without parent
HandlePrerenderOutputs ==
    /\ pc = "prerenderOutputs"
    /\ IF \E i \in 1..Len(build.outputs.prerenders) :
              build.outputs.prerenders[i].parentOutputId \notin DOMAIN nodeOutputsParentMap
       THEN Throw("Invariant: failed to find parent node output")
       ELSE /\ Run("prerenderOutputs", "handlePrerenderOutputs")
            /\ UNCHANGED <<build, run, error, locals, files, previousRoutes, handled, units>>

\* let addedNextData404Route = false
InitialAddedNextData404Route == FALSE

\* variant: the rules pushed onto a list that outlives the call
CreateRoutesOntoPreviousList ==
    /\ Run("routes", "createRoutes")
    /\ LET loop == DynamicRoutes(build, InitialAddedNextData404Route)
       IN /\ addedNextData404Route' = loop.addedNextData404Route
          /\ routes' = previousRoutes
                           \o VercelConfigRoutes(build, middlewareRoutes, loop.dynamicRoutes,
                                                 notFoundPath, has500Output)
    /\ UNCHANGED <<build, run, error, hasNotFoundOutput, has404Output, has500Output,
                   notFoundPath, nodeOutputsParentMap, prerenderFallbackFalseMap,
                   middlewareRoutes, files, previousRoutes, handled, units>>

\* "create routes": from normalizeRewrites to the end of the array literal
CreateRoutes ==
    /\ Run("routes", "createRoutes")
    /\ LET loop == DynamicRoutes(build, InitialAddedNextData404Route)
       IN /\ addedNextData404Route' = loop.addedNextData404Route
          /\ routes' = VercelConfigRoutes(build, middlewareRoutes, loop.dynamicRoutes,
                                          notFoundPath, has500Output)
    /\ UNCHANGED <<build, run, error, hasNotFoundOutput, has404Output, has500Output,
                   notFoundPath, nodeOutputsParentMap, prerenderFallbackFalseMap,
                   middlewareRoutes, files, previousRoutes, handled, units>>

\* await fs.writeFile(outputConfigPath, JSON.stringify(vercelConfig, null, 2))
WriteConfig ==
    /\ Run("writeConfig", "writeConfig")
    /\ configJson' = [written |-> TRUE, routes |-> routes]
    /\ UNCHANGED <<build, run, error, locals, launchers, vcConfigs, previousRoutes, handled,
                   units>>

\* the steps that call the file system
IoSteps == {"mkdir", "publicFiles", "staticOutputs", "edgeOutputs", "middleware",
            "nodeOutputs", "prerenderOutputs", "writeConfig"}

\* a file-system call of the step rejects
IoError ==
    /\ pc \in IoSteps
    /\ pc = "middleware" => HasMiddleware(build.outputs)
    /\ Throw("io")

\* the adapter is called again in the same process, with the same arguments
CallAgain ==
    /\ pc = "done"
    /\ run < MaxRuns
    /\ pc' = StatementOrder[1]
    /\ run' = run + 1
    /\ started' = {}
    /\ previousRoutes' = routes
    /\ handled' = <<>>
    /\ ResetLocals
    /\ UNCHANGED <<build, error, files, units>>

\* a launcher of a function output is invoked with a matched path; the
\* launcher keeps nothing between requests, so one request per call is followed
HandleRequest ==
    /\ pc = "done"
    /\ handled = <<>>
    /\ \E output \in {NodeOutputs(build.outputs)[i] : i \in 1..Len(NodeOutputs(build.outputs))},
          requestPath \in RequestPaths :
           /\ output.pathname \in DOMAIN launchers
           /\ handled' = <<matchUrlToPage(build, launchers[output.pathname], requestPath)>>
    /\ UNCHANGED <<build, pc, run, error, started, locals, files, previousRoutes, units>>

Next ==
    \/ Mkdir
    \/ HandlePublicFiles
    \/ HandleStaticOutputs
    \/ CollectOutputs
    \/ HandleEdgeOutputs
    \/ BuildPrerenderFallbackFalseMap
    \/ HandleMiddleware
    \/ HandleNodeOutputs
    \/ HandlePrerenderOutputs
    \/ CreateRoutes
    \/ WriteConfig
    \/ IoError
    \/ CallAgain

Spec == Init /\ [][Next]_vars

\* the data-route rules of the list at one of their positions
DataRulesBetween(rs, origin, from, to) ==
    SelectSeq(SubSeq(rs, from, to), LAMBDA r : r.origin = origin)

FilesystemIndex(rs) == CHOOSE i \in 1..Len(rs) : rs[i] = Handle("filesystem")

\* the engine takes a data request for a canonical path through the
\* denormalization rules ahead of the filesystem marker and then through the
\* normalization rules behind it
ResolveDataRequest ==
    /\ pc = "done"
    /\ handled = <<>>
    /\ ShouldHandleMiddlewareDataResolving(build.outputs)
    /\ \E path \in CanonicalPaths :
           LET rs == configJson.routes
               fs == FilesystemIndex(rs)
               denormalized ==
                   ApplyRoutes(DataRulesBetween(rs, "denormalizeNextData", 1, fs), path, TRUE)
               normalized ==
                   ApplyRoutes(DataRulesBetween(rs, "normalizeNextData", fs, Len(rs)),
                               denormalized, TRUE)
           IN handled' = <<[request |-> path, denormalized |-> denormalized,
                            normalized |-> normalized]>>
    /\ UNCHANGED <<build, pc, run, error, started, locals, files, previousRoutes, units>>

\* the builds whose config.json is followed into the engine
RoutingBuilds == ConfigBuilds

\* onBuildComplete, then data requests through the rules of config.json
RoutingSpec == InitOn(RoutingBuilds) /\ [][Next \/ ResolveDataRequest]_vars

\* the builds whose launchers are followed into their requests: the ones
\* with prerenders
HandlerBuilds == PrerenderBuilds \cup LocalePrerenderBuilds

\* onBuildComplete, then requests to the launchers it wrote
HandlerSpec == InitOn(HandlerBuilds) /\ [][Next \/ HandleRequest]_vars

(***************************************************************************)
(* utils.ts followed on its own: escapeStringRegexp on every string of up  *)
(* to MaxEscapeLen characters over the regex operators and a few others    *)
(***************************************************************************)
MaxEscapeLen == 2

EscapeAlphabet == matchOperatorsRegex \cup {"a", "/", "_", "1"}

RECURSIVE StringsUpTo(_, _)
StringsUpTo(alphabet, n) ==
    IF n = 0 THEN {""}
    ELSE LET shorter == StringsUpTo(alphabet, n - 1)
         IN shorter \cup {c \o t : c \in alphabet, t \in {u \in shorter : Len(u) = n - 1}}

EscapeInputs == StringsUpTo(EscapeAlphabet, MaxEscapeLen)

EscapeInit ==
    /\ ProcessStart({MakeBuild(BaseConfig("", <<>>), MakeOutputs(<<>>, <<>>, <<>>, <<>>, <<>>),
                               BaseRoutes)})
    /\ applied \in {<<[str |-> str]>> : str \in EscapeInputs}
    /\ writeLock = <<>> /\ calls = <<>> /\ disk = <<>>
    /\ fsSema = 0 /\ tasks = <<>>

\* escapeStringRegexp(str) returns
EscapeString ==
    /\ applied # <<>>
    /\ DOMAIN applied[1] = {"str"}
    /\ applied' = <<[str |-> applied[1].str, result |-> escapeStringRegexp(applied[1].str)]>>
    /\ UNCHANGED <<build, pc, run, error, started, locals, files, previousRoutes, handled,
                   writing, permits>>

EscapeSpec == EscapeInit /\ [][EscapeString]_vars

(***************************************************************************)
(* utils.ts: getImagesConfig.  An object is a function from the keys that  *)
(* are set to their values; a key whose value is undefined is not in the   *)
(* domain (JSON.stringify drops it).                                       *)
(***************************************************************************)
FullImages ==
    [remotePatterns |-> <<[protocol |-> "https:", hostname |-> "*.example.com",
                           port |-> "8080", pathname |-> "/img/**", search |-> "?v=1"],
                          [hostname |-> "cdn.example.org"]>>,
     localPatterns |-> <<[pathname |-> "/assets/**", search |-> ""], [search |-> "?w=1"]>>,
     imageSizes |-> <<16, 32>>,
     deviceSizes |-> <<640>>,
     domains |-> <<"img.example">>,
     qualities |-> <<75, 90>>,
     minimumCacheTTL |-> 60,
     formats |-> <<"image/webp">>,
     dangerouslyAllowSVG |-> FALSE,
     contentSecurityPolicy |-> "script-src 'none'",
     contentDispositionType |-> "inline"]

\* NextConfig with images left out, or with any of the keys of images left out
ImagesConfigs ==
    {<<>>} \cup {[images |-> [k \in keys |-> FullImages[k]]] : keys \in SUBSET DOMAIN FullImages}

\* makeRe(glob, options).source of picomatch: the regex source for the glob
MakeReSource(glob, dot) == "re:" \o glob \o (IF dot THEN ":dot" ELSE "")

\* key: value in an object literal, nothing when the value is undefined
Field(key, object) == IF key \in DOMAIN object THEN key :> object[key] ELSE <<>>

RemotePattern(p) ==
    (IF "protocol" \in DOMAIN p THEN "protocol" :> StripSuffix(p.protocol, ":") ELSE <<>>)
        @@ [hostname |-> MakeReSource(p.hostname, FALSE),
            pathname |-> MakeReSource(IF "pathname" \in DOMAIN p THEN p.pathname ELSE "**", TRUE)]
        @@ Field("port", p) @@ Field("search", p)

LocalPattern(p) ==
    [pathname |-> MakeReSource(IF "pathname" \in DOMAIN p THEN p.pathname ELSE "**", TRUE)]
        @@ Field("search", p)

\* images.<key> || []
OrEmpty(images, key) == IF key \in DOMAIN images THEN images[key] ELSE <<>>

CarriedKeys ==
    {"qualities", "minimumCacheTTL", "formats", "dangerouslyAllowSVG",
     "contentSecurityPolicy", "contentDispositionType"}

\* variant: localPatterns mapped from (images.localPatterns || [])
getImagesConfigDefaultingLocalPatterns(config) ==
    LET images == IF "images" \in DOMAIN config THEN config.images ELSE <<>>
    IN [remotePatterns |-> [i \in 1..Len(OrEmpty(images, "remotePatterns")) |->
                               RemotePattern(images.remotePatterns[i])],
        localPatterns |-> [i \in 1..Len(OrEmpty(images, "localPatterns")) |->
                              LocalPattern(images.localPatterns[i])],
        sizes |-> OrEmpty(images, "imageSizes") \o OrEmpty(images, "deviceSizes"),
        domains |-> OrEmpty(images, "domains")]
           @@ [k \in CarriedKeys \cap DOMAIN images |-> images[k]]

getImagesConfig(config) ==
    LET images == IF "images" \in DOMAIN config THEN config.images ELSE <<>>
    IN [remotePatterns |-> [i \in 1..Len(OrEmpty(images, "remotePatterns")) |->
                               RemotePattern(images.remotePatterns[i])],
        sizes |-> OrEmpty(images, "imageSizes") \o OrEmpty(images, "deviceSizes"),
        domains |-> OrEmpty(images, "domains")]
           @@ (IF "localPatterns" \in DOMAIN images
               THEN "localPatterns" :> [i \in 1..Len(images.localPatterns) |->
                                           LocalPattern(images.localPatterns[i])]
               ELSE <<>>)
           @@ [k \in CarriedKeys \cap DOMAIN images |-> images[k]]

ImagesInit ==
    /\ ProcessStart({MakeBuild(BaseConfig("", <<>>), MakeOutputs(<<>>, <<>>, <<>>, <<>>, <<>>),
                               BaseRoutes)})
    /\ applied \in {<<[config |-> config]>> : config \in ImagesConfigs}
    /\ writeLock = <<>> /\ calls = <<>> /\ disk = <<>>
    /\ fsSema = 0 /\ tasks = <<>>

\* getImagesConfig(config) returns
GetImagesConfig ==
    /\ applied # <<>>
    /\ DOMAIN applied[1] = {"config"}
    /\ applied' = <<[config |-> applied[1].config, result |-> getImagesConfig(applied[1].config)]>>
    /\ UNCHANGED <<build, pc, run, error, started, locals, files, previousRoutes, handled,
                   writing, permits>>

ImagesSpec == ImagesInit /\ [][GetImagesConfig]_vars

(***************************************************************************)
(* get-edge-function.ts: the page match of the edge function.  A route's   *)
(* regexp is kept as in the manifest routes above: its kind and the        *)
(* literal text ahead of its group.                                        *)
(***************************************************************************)
MaxEdgeRoutes == 2

EdgeRoute(page, kind, prefix) == [page |-> page, regex |-> [kind |-> kind, prefix |-> prefix]]

EdgeStaticCatalogue ==
    {EdgeRoute("/about", "static", "/about"), EdgeRoute("/about-alias", "static", "/about"),
     EdgeRoute("/api/docs", "static", "/api/docs")}

EdgeDynamicCatalogue ==
    {EdgeRoute("/[slug]", "dynamic", "/"), EdgeRoute("/[...rest]", "catchAll", "/"),
     EdgeRoute("/api/[id]", "dynamic", "/api/")}

\* NextjsParams; handleEdgeOutputs passes staticRoutes: [] and dynamicRoutes: []
EdgeParams ==
    {[staticRoutes |-> st, dynamicRoutes |-> dy,
      nextConfig |-> nextConfig] :
        st \in SeqsUpTo(EdgeStaticCatalogue, MaxEdgeRoutes),
        dy \in SeqsUpTo(EdgeDynamicCatalogue, MaxEdgeRoutes),
        nextConfig \in {[basePath |-> "", i18n |-> <<>>],
                        [basePath |-> "/docs", i18n |-> OneI18n]}}

\* new URL(request.url).pathname
EdgeRequestPaths ==
    {"/", "/about", "/api", "/api/7", "/api/docs", "/api/a/b", "/x", "/x/y",
     "/docs/api/7", "/fr/api/7", "/docs/fr/api", "/EN-us/x"}

\* isApiRoute
isApiRoute(path) == path = "/api" \/ StartsWith(path, "/api/")

\* if (pathname.startsWith(basePath)) pathname = pathname.replace(basePath, '') || '/'
RemoveBasePath(pathname, basePath) ==
    IF basePath # "" /\ StartsWith(pathname, basePath)
    THEN (IF SubstringFrom(pathname, Len(basePath)) = "" THEN "/"
          ELSE SubstringFrom(pathname, Len(basePath)))
    ELSE pathname

\* pathname.match(new RegExp(`^/${locale}($|/)`, 'i'))
LocaleMatches(pathname, locale) ==
    \/ ToLowerCase(pathname) = "/" \o ToLowerCase(locale)
    \/ StartsWith(ToLowerCase(pathname), "/" \o ToLowerCase(locale) \o "/")

\* the loop over i18n.locales: the first locale that matches is replaced by "/"
RemoveLocale(pathname, i18n) ==
    LET locales == IF i18n = <<>> THEN <<>> ELSE i18n[1].locales
        found == {i \in 1..Len(locales) : LocaleMatches(pathname, locales[i])}
    IN IF found = {} THEN pathname
       ELSE LET locale == locales[CHOOSE i \in found : \A j \in found : i <= j]
            IN IF Len(pathname) = Len(locale) + 1 THEN "/"
               ELSE "/" \o SubstringFrom(pathname, Len(locale) + 2)

\* for (const route of routes) { ... if (result) { ...; break } }, with the
\* continue for non-API routes when skipNonApi
FirstPageMatch(routeList, pathname, skipNonApi) ==
    LET hits == {i \in 1..Len(routeList) :
                    /\ ~(skipNonApi /\ ~isApiRoute(routeList[i].page))
                    /\ RegexTest(routeList[i].regex, pathname)}
    IN IF hits = {} THEN <<>>
       ELSE <<routeList[CHOOSE i \in hits : \A j \in hits : i <= j].page>>

\* variant: the dynamic routes tried without the API check
edgeFunctionWithoutApiCheck(params, url) ==
    LET pathname == RemoveLocale(RemoveBasePath(url, params.nextConfig.basePath),
                                 params.nextConfig.i18n)
        static == FirstPageMatch(params.staticRoutes, pathname, FALSE)
    IN [pathname |-> pathname,
        page |-> IF static # <<>> THEN static
                 ELSE FirstPageMatch(params.dynamicRoutes, pathname, FALSE),
        dynamic |-> static = <<>>]

\* edgeFunction up to pageMatch: the page name, and whether the dynamic
\* routes were gone through
edgeFunction(params, url) ==
    LET pathname == RemoveLocale(RemoveBasePath(url, params.nextConfig.basePath),
                                 params.nextConfig.i18n)
        static == FirstPageMatch(params.staticRoutes, pathname, FALSE)
    IN [pathname |-> pathname,
        page |-> IF static # <<>> THEN static
                 ELSE FirstPageMatch(params.dynamicRoutes, pathname, isApiRoute(pathname)),
        dynamic |-> static = <<>>]

EdgeInit ==
    /\ ProcessStart({MakeBuild(BaseConfig("", <<>>), MakeOutputs(<<>>, <<>>, <<>>, <<>>, <<>>),
                               BaseRoutes)})
    /\ applied \in {<<[params |-> params, url |-> url]>> :
                       params \in EdgeParams, url \in EdgeRequestPaths}
    /\ writeLock = <<>> /\ calls = <<>> /\ disk = <<>>
    /\ fsSema = 0 /\ tasks = <<>>

\* a request reaches the edge function
EdgeFunction ==
    /\ applied # <<>>
    /\ DOMAIN applied[1] = {"params", "url"}
    /\ applied' = <<[params |-> applied[1].params, url |-> applied[1].url,
                     pageMatch |-> edgeFunction(applied[1].params, applied[1].url)]>>
    /\ UNCHANGED <<build, pc, run, error, started, locals, files, previousRoutes, handled,
                   writing, permits>>

EdgeSpec == EdgeInit /\ [][EdgeFunction]_vars

(***************************************************************************)
(* handlers: writeIfNotExists and writeLock, followed on one file path.     *)
(* A promise is named by the call that made it; a call is at "await", at    *)
(* "writing" (fs.writeFile is under way), at "written" (the fs promise has  *)
(* settled, its .catch and .finally have not run yet), "resolved" or        *)
(* "rejected".  The file keeps who created it, 0 for a file that was there  *)
(* before the calls.                                                        *)
(***************************************************************************)
MaxCalls == 3

Contents == {"a", "b"}

OldFile == <<[content |-> "old", writer |-> 0]>>

\* variant: fs.writeFile(filePath, content) with the default flag 'w'
writeFileWithoutExclusiveFlag(file, content, call) ==
    [file |-> <<[content |-> content, writer |-> call]>>, code |-> ""]

\* fs.writeFile(filePath, content, { flag: 'wx' }) taking effect on the file
writeFile(file, content, call) ==
    IF file = <<>>
    THEN [file |-> <<[content |-> content, writer |-> call]>>, code |-> ""]
    ELSE [file |-> file, code |-> "EEXIST"]

\* a promise that has been resolved or rejected
Settled(promise) == calls[promise].at \in {"resolved", "rejected"}

\* call i can go on after its await
CanResume(i) ==
    /\ calls[i].at = "await"
    /\ IF calls[i].awaited = <<>> THEN TRUE ELSE Settled(calls[i].awaited[1])

\* promise reactions are run before the next completion of the file system
MicrotaskPending == \E i \in DOMAIN calls : calls[i].at = "written" \/ CanResume(i)

WriteInit ==
    /\ ProcessStart({MakeBuild(BaseConfig("", <<>>), MakeOutputs(<<>>, <<>>, <<>>, <<>>, <<>>),
                               BaseRoutes)})
    /\ applied = <<>>
    /\ writeLock = <<>> /\ calls = <<>>
    /\ disk \in {<<>>, OldFile}
    /\ fsSema = 0 /\ tasks = <<>>

\* writeIfNotExists(filePath, content) is called and runs up to its await
WriteIfNotExists ==
    /\ Len(calls) < MaxCalls
    /\ \E content \in Contents :
         calls' = Append(calls, [content |-> content, at |-> "await",
                                 awaited |-> writeLock, code |-> ""])
    /\ UNCHANGED <<build, pc, run, error, started, locals, files, previousRoutes, handled,
                   applied, writeLock, disk, permits>>

\* what a call awaited has settled: it throws what that promise was rejected
\* with, or starts its write and puts writePromise in writeLock
StartWrite ==
    /\ \E i \in DOMAIN calls :
         /\ CanResume(i)
         /\ IF calls[i].awaited # <<>> /\ calls[calls[i].awaited[1]].at = "rejected"
            THEN /\ calls' = [calls EXCEPT ![i].at = "rejected",
                                           ![i].code = calls[calls[i].awaited[1]].code]
                 /\ UNCHANGED writeLock
            ELSE /\ calls' = [calls EXCEPT ![i].at = "writing"]
                 /\ writeLock' = <<i>>
    /\ UNCHANGED <<build, pc, run, error, started, locals, files, previousRoutes, handled,
                   applied, disk, permits>>

\* the write of a call takes effect, or fails for another reason than the
\* file being there, and its fs promise settles
WriteFileSettles ==
    /\ ~MicrotaskPending
    /\ \E i \in DOMAIN calls :
         /\ calls[i].at = "writing"
         /\ \E outcome \in {writeFile(disk, calls[i].content, i),
                            [file |-> disk, code |-> "EIO"]} :
              /\ disk' = outcome.file
              /\ calls' = [calls EXCEPT ![i].at = "written", ![i].code = outcome.code]
    /\ UNCHANGED <<build, pc, run, error, started, locals, files, previousRoutes, handled,
                   applied, writeLock, permits>>

\* .catch and .finally of a call run and its writePromise settles
CatchFinally ==
    /\ \E i \in DOMAIN calls :
         /\ calls[i].at = "written"
         /\ writeLock' = <<>>
         /\ calls' = [calls EXCEPT ![i].at = IF calls[i].code \in {"", "EEXIST"}
                                             THEN "resolved" ELSE "rejected"]
    /\ UNCHANGED <<build, pc, run, error, started, locals, files, previousRoutes, handled,
                   applied, disk, permits>>

WriteNext == WriteIfNotExists \/ StartWrite \/ WriteFileSettles \/ CatchFinally

WriteSpec == WriteInit /\ [][WriteNext]_vars

(***************************************************************************)
(* handlers: the semaphore of an output handler.  Each handler makes        *)
(* `new Sema(16, ...)` and runs one task per output in Promise.all; a task  *)
(* is at "start", "holding" (acquire has returned), "done" or "threw".      *)
(***************************************************************************)
MaxTasks == 3

SemaPermits == 16

OutputHandlers ==
    {"handlePublicFiles", "handleStaticOutputs", "handleNodeOutputs",
     "handlePrerenderOutputs", "handleEdgeOutputs"}

SemaInit ==
    /\ ProcessStart({MakeBuild(BaseConfig("", <<>>), MakeOutputs(<<>>, <<>>, <<>>, <<>>, <<>>),
                               BaseRoutes)})
    /\ applied = <<>>
    /\ writeLock = <<>> /\ calls = <<>> /\ disk = <<>>
    /\ fsSema = SemaPermits
    /\ tasks \in {[i \in 1..n |-> [handler |-> handler, at |-> "start"]] :
                     handler \in OutputHandlers, n \in 1..MaxTasks}

\* await fsSema.acquire() returns in a task
Acquire ==
    /\ fsSema > 0
    /\ \E i \in DOMAIN tasks :
         /\ tasks[i].at = "start"
         /\ tasks' = [tasks EXCEPT ![i].at = "holding"]
    /\ fsSema' = fsSema - 1
    /\ UNCHANGED <<build, pc, run, error, started, locals, files, previousRoutes, handled,
                   applied, writing>>

\* the body of a task has run to its last statement, fsSema.release()
Release ==
    /\ \E i \in DOMAIN tasks :
         /\ tasks[i].at = "holding"
         /\ tasks' = [tasks EXCEPT ![i].at = "done"]
    /\ fsSema' = fsSema + 1
    /\ UNCHANGED <<build, pc, run, error, started, locals, files, previousRoutes, handled,
                   applied, writing>>

\* an awaited call of the body rejects: the task throws from there (in
\* handlePrerenderOutputs through a catch that logs and throws again)
TaskThrows ==
    /\ \E i \in DOMAIN tasks :
         /\ tasks[i].at = "holding"
         /\ tasks' = [tasks EXCEPT ![i].at = "threw"]
    /\ UNCHANGED <<build, pc, run, error, started, locals, files, previousRoutes, handled,
                   applied, writing, fsSema>>

SemaNext == Acquire \/ Release \/ TaskThrows

SemaSpec == SemaInit /\ [][SemaNext]_vars

(***************************************************************************)
(* Properties of the emitted route list                                    *)
(***************************************************************************)
\* the call has built vercelConfig.routes
Compiled == "createRoutes" \in started

PhaseMarkers == {"filesystem", "resource", "miss", "rewrite", "hit", "error"}

IsMarker(route) == "handle" \in DOMAIN route

MarkerPositions(rs, name) == {i \in 1..Len(rs) : IsMarker(rs[i]) /\ rs[i].handle = name}

OriginPositions(rs, origins) == {i \in 1..Len(rs) : rs[i].origin \in origins}

AllBefore(A, B) == \A a \in A, b \in B : a < b

\* every position of a marker is below every position of the markers after it
MarkersOrdered(rs, names) ==
    \A i, j \in 1..Len(names) :
        i < j => AllBefore(MarkerPositions(rs, names[i]), MarkerPositions(rs, names[j]))

Present(origin) == OriginPositions(routes, {origin}) # {}

(***************************************************************************)
(* C1.  As stated: the phase markers appear in the order filesystem,       *)
(* resource, rewrite, miss, hit, error, each at a strictly greater         *)
(* position than the previous one.                                         *)
(***************************************************************************)
C1_MarkersInStatedOrder ==
    Compiled =>
        /\ \A n \in PhaseMarkers : MarkerPositions(routes, n) # {}
        /\ MarkersOrdered(routes, <<"filesystem", "resource", "rewrite", "miss", "hit", "error">>)

\* C1, as the code has it: for every build description the phase markers of
\* the emitted route list appear in the order filesystem, resource, miss,
\* rewrite, hit, error, each at a strictly greater position than the one
\* before it.
C1_MarkersInCodeOrder ==
    Compiled =>
        /\ \A n \in PhaseMarkers : MarkerPositions(routes, n) # {}
        /\ MarkersOrdered(routes, <<"filesystem", "resource", "miss", "rewrite", "hit", "error">>)

\* a finished list in which rules stand between the miss and the rewrite marker
C1_Witness ==
    /\ pc = "done"
    /\ \E m \in MarkerPositions(routes, "miss"), r \in MarkerPositions(routes, "rewrite") :
           m + 1 < r

(***************************************************************************)
(* C2.  For every combination of inputs the emitted route list contains    *)
(* each of the six phase markers exactly once, and no other marker.        *)
(***************************************************************************)
C2_EachMarkerExactlyOnce ==
    Compiled =>
        /\ \A n \in PhaseMarkers : Cardinality(MarkerPositions(routes, n)) = 1
        /\ \A i \in 1..Len(routes) : IsMarker(routes[i]) => routes[i].handle \in PhaseMarkers

\* a finished list of a build without any user rule, locale or middleware,
\* where every optional fragment between the markers is empty
C2_Witness ==
    /\ pc = "done"
    /\ ~HasI18n(build.config)
    /\ ~HasMiddleware(build.outputs)
    /\ Len(build.routes.rewrites.fallback) = 0
    /\ Len(build.routes.dynamicRoutes) = 0
    /\ Cardinality({i \in 1..Len(routes) : IsMarker(routes[i])}) = 6

(***************************************************************************)
(* C3.  As stated: every user header rule, every redirect rule, every      *)
(* middleware matcher rule, every locale rewrite rule and every            *)
(* beforeFiles rewrite is before the filesystem marker; every afterFiles   *)
(* rewrite is after the filesystem marker and before the resource marker.  *)
(***************************************************************************)
UserRuleOrigins == {"header", "priorityRedirect", "redirect", "middleware", "beforeFiles"}

\* the rewrites of the locale block, ahead of the user rules
LocaleBlockRewriteOrigins == {"localeWildcard", "defaultLocalePrefix"}

\* the locale rewrites emitted after { handle: 'miss' }
MissPhaseLocaleOrigins == {"defaultLocalePrefixFallback", "localePrefixStrip"}

AfterFilesBetweenFilesystemAndResource ==
    /\ AllBefore(MarkerPositions(routes, "filesystem"), OriginPositions(routes, {"afterFiles"}))
    /\ AllBefore(OriginPositions(routes, {"afterFiles"}), MarkerPositions(routes, "resource"))

C3_AllLocaleRewritesBeforeFilesystem ==
    Compiled =>
        /\ AllBefore(OriginPositions(routes, UserRuleOrigins \cup LocaleBlockRewriteOrigins
                                                 \cup MissPhaseLocaleOrigins),
                     MarkerPositions(routes, "filesystem"))
        /\ AfterFilesBetweenFilesystemAndResource

\* C3, as the code has it: header, redirect, middleware matcher and
\* beforeFiles rules and the rewrites of the locale block (wildcard and
\* default-locale prefix) are before the filesystem marker; afterFiles
\* rewrites are between the filesystem and the resource marker; the rewrites
\* that strip the locale prefix, and the second copy of the default-locale
\* pair emitted when localeDetection is false, are after the miss marker and
\* before the rewrite marker.
C3_RulePhases ==
    Compiled =>
        /\ AllBefore(OriginPositions(routes, UserRuleOrigins \cup LocaleBlockRewriteOrigins),
                     MarkerPositions(routes, "filesystem"))
        /\ AfterFilesBetweenFilesystemAndResource
        /\ AllBefore(MarkerPositions(routes, "miss"),
                     OriginPositions(routes, MissPhaseLocaleOrigins))
        /\ AllBefore(OriginPositions(routes, MissPhaseLocaleOrigins),
                     MarkerPositions(routes, "rewrite"))

\* a finished list holding every kind of rule the statement names
C3_Witness ==
    /\ pc = "done"
    /\ \A o \in UserRuleOrigins \cup LocaleBlockRewriteOrigins \cup MissPhaseLocaleOrigins
                   \cup {"afterFiles"} : Present(o)

(***************************************************************************)
(* C4.  As stated: every fallback rewrite is after the rewrite marker and  *)
(* before the error marker.                                                *)
(***************************************************************************)
C4_FallbackAfterRewriteMarker ==
    Compiled =>
        /\ AllBefore(MarkerPositions(routes, "rewrite"), OriginPositions(routes, {"fallback"}))
        /\ AllBefore(OriginPositions(routes, {"fallback"}), MarkerPositions(routes, "error"))

\* C4, as the code has it: every fallback rewrite is after the resource
\* marker and before the miss marker, hence before the rewrite marker and the
\* error marker.
C4_FallbackInResourcePhase ==
    Compiled =>
        /\ AllBefore(MarkerPositions(routes, "resource"), OriginPositions(routes, {"fallback"}))
        /\ AllBefore(OriginPositions(routes, {"fallback"}), MarkerPositions(routes, "miss"))
        /\ AllBefore(OriginPositions(routes, {"fallback"}), MarkerPositions(routes, "rewrite"))
        /\ AllBefore(OriginPositions(routes, {"fallback"}), MarkerPositions(routes, "error"))

\* a finished list with a fallback rewrite that modifyWithRewriteHeaders went over
C4_Witness ==
    /\ pc = "done"
    /\ ShouldHandleSegmentPrefetches(build.config)
    /\ Present("fallback")

(***************************************************************************)
(* C5.  As stated: auto-prefix of the default locale, stripping of the     *)
(* default locale and the locale-to-domain redirect are all present when   *)
(* i18n is set and all absent when it is unset.                            *)
(***************************************************************************)
LocaleOrigins ==
    {"localeWildcard", "localeDomainRedirect", "localeRedirect", "defaultLocalePrefix",
     "defaultLocalePrefixFallback", "localePrefixStrip"}

C5_AllLocaleRulesIffI18n ==
    Compiled =>
        IF HasI18n(build.config)
        THEN Present("defaultLocalePrefix") /\ Present("localePrefixStrip")
                 /\ Present("localeDomainRedirect")
        ELSE ~Present("defaultLocalePrefix") /\ ~Present("localePrefixStrip")
                 /\ ~Present("localeDomainRedirect")

\* C5, as the code has it: the rules that prefix and that strip the default
\* locale are present exactly when i18n is set; the locale-to-domain redirect
\* is present exactly when i18n is set with a non-empty domains list and
\* localeDetection is not false; with i18n unset no locale rule is present.
C5_LocaleRulePresence ==
    Compiled =>
        /\ Present("defaultLocalePrefix") <=> HasI18n(build.config)
        /\ Present("localePrefixStrip") <=> HasI18n(build.config)
        /\ Present("localeDomainRedirect") <=>
               /\ HasI18n(build.config)
               /\ Len(build.config.i18n[1].domains) > 0
               /\ build.config.i18n[1].localeDetection # FALSE
        /\ ~HasI18n(build.config) => OriginPositions(routes, LocaleOrigins) = {}

\* a finished list of an i18n build with domains whose localeDetection is
\* false: prefix and strip rules without the domain redirect
C5_Witness ==
    /\ pc = "done"
    /\ HasI18n(build.config)
    /\ Len(build.config.i18n[1].domains) > 0
    /\ build.config.i18n[1].localeDetection = FALSE
    /\ Present("defaultLocalePrefix")
    /\ Present("localePrefixStrip")
    /\ ~Present("localeDomainRedirect")

(***************************************************************************)
(* C6.  As stated: for a non-empty dynamicRoutes sequence with pages-style *)
(* outputs and no middleware the _next/data 404 guard appears exactly once *)
(* and precedes every dynamic-route entry; with middleware it never        *)
(* appears.                                                                *)
(***************************************************************************)
GuardPositions == OriginPositions(routes, {"nextData404"})

DynamicRoutePositions == OriginPositions(routes, {"dynamicRoute"})

\* the entries of dynamic routes whose source is not a _next/data one
PageRoutePositions ==
    {i \in DynamicRoutePositions : ~Includes(routes[i].src, "_next/data")}

C6_GuardBeforeEveryDynamicRoute ==
    Compiled =>
        /\ (/\ Len(build.routes.dynamicRoutes) > 0
            /\ HasPagesDir(build.outputs)
            /\ ~HasMiddleware(build.outputs))
               => /\ Cardinality(GuardPositions) = 1
                  /\ AllBefore(GuardPositions, DynamicRoutePositions)
        /\ HasMiddleware(build.outputs) => GuardPositions = {}

\* C6, as the code has it: the guard appears at most once; it appears exactly
\* when pages-style outputs are present, middleware is absent and some
\* dynamic route has a source without _next/data; it then stands immediately
\* before the first such route, after the _next/data dynamic routes that
\* come earlier in the sequence.
C6_GuardBeforeFirstPageRoute ==
    Compiled =>
        /\ Cardinality(GuardPositions) <= 1
        /\ GuardPositions # {} <=>
               /\ HasPagesDir(build.outputs)
               /\ ~HasMiddleware(build.outputs)
               /\ PageRoutePositions # {}
        /\ \A g \in GuardPositions :
               /\ g + 1 \in PageRoutePositions
               /\ \A p \in PageRoutePositions : g < p
        /\ HasMiddleware(build.outputs) => GuardPositions = {}

\* a finished list whose guard stands after a _next/data dynamic route
C6_Witness ==
    /\ pc = "done"
    /\ \E g \in GuardPositions, d \in DynamicRoutePositions : d < g

(***************************************************************************)
(* C7.  The destination of the not-found rules after the error marker      *)
(* ends in /_not-found when some output's pathname ends in /_not-found,    *)
(* else in /404 when some output's pathname ends in /404, else in /_error, *)
(* in the i18n pair of rules and in the single rule without i18n.          *)
(***************************************************************************)
OutputExists(suffix) ==
    \E o \in {FunctionOutputs(build.outputs)[i] : i \in 1..Len(FunctionOutputs(build.outputs))}
                 \cup {build.outputs.staticFiles[i] : i \in 1..Len(build.outputs.staticFiles)} :
        EndsWith(o.pathname, suffix)

ExpectedNotFoundSuffix ==
    IF OutputExists("/_not-found") THEN "/_not-found"
    ELSE IF OutputExists("/404") THEN "/404" ELSE "/_error"

C7_NotFoundPrecedence ==
    Compiled =>
        /\ Cardinality(OriginPositions(routes, {"notFound"})) =
               IF HasI18n(build.config) THEN 2 ELSE 1
        /\ AllBefore(MarkerPositions(routes, "error"), OriginPositions(routes, {"notFound"}))
        /\ \A i \in OriginPositions(routes, {"notFound"}) :
               /\ routes[i].status = 404
               /\ EndsWith(routes[i].dest, ExpectedNotFoundSuffix)

\* a finished i18n list of a build that has both a _not-found and a 404 output
C7_Witness ==
    /\ pc = "done"
    /\ HasI18n(build.config)
    /\ OutputExists("/_not-found")
    /\ OutputExists("/404")
    /\ \E i \in OriginPositions(routes, {"notFound"}) : EndsWith(routes[i].dest, "/_not-found")

MissingParentOutput ==
    \E i \in 1..Len(build.outputs.prerenders) :
        LET prerender == build.outputs.prerenders[i]
        IN /\ IsFallbackFalsePrerender(prerender)
           /\ \A j \in 1..Len(NodeOutputs(build.outputs)) :
                  NodeOutputs(build.outputs)[j].id # prerender.parentOutputId

StepsAfterPrerenderMap ==
    {"prerenderMap", "handleMiddleware", "handleNodeOutputs", "handlePrerenderOutputs",
     "createRoutes", "writeConfig"}

C9_NoTableOnMissingParent ==
    /\ MissingParentOutput =>
           /\ started \cap StepsAfterPrerenderMap = {}
           /\ pc # "done"
           /\ routes = <<>>
           /\ configJson = NoFile
           /\ pc = "failed" => error \in {"io", "Invariant: missing parent output"}
    /\ configJson.written =>
           /\ pc = "done" \/ run > 1
           /\ configJson.routes = IF pc = "done" THEN routes ELSE previousRoutes
           /\ \A n \in PhaseMarkers : MarkerPositions(configJson.routes, n) # {}

\* the call has thrown the invariant error and config.json does not exist
C9_Witness ==
    /\ pc = "failed"
    /\ error = "Invariant: missing parent output"
    /\ MissingParentOutput
    /\ ~configJson.written

(***************************************************************************)
(* C10.  Within a call, prerenderFallbackFalseMap does not change once     *)
(* handleMiddleware or handleNodeOutputs has started, and none of          *)
(* hasNotFoundOutput, has404Output, has500Output and notFoundPath changes  *)
(* once the routes are being created; the map in every launcher written by *)
(* the call is the map of the finished call.                               *)
(***************************************************************************)
MapReaders == {"handleMiddleware", "handleNodeOutputs"}

\* a step of the call that does not end it
SameCall == started # {} /\ started \subseteq started'

C10_FactsFinalBeforeRead ==
    [][SameCall =>
          /\ started \cap MapReaders # {} =>
                 prerenderFallbackFalseMap' = prerenderFallbackFalseMap
          /\ Compiled => facts' = facts
          /\ started' \cap MapReaders # {} =>
                 \A p \in DOMAIN launchers' \ DOMAIN launchers :
                     launchers'[p] = prerenderFallbackFalseMap']_vars

\* a finished call whose launchers carry a non-empty map
C10_Witness ==
    /\ pc = "done"
    /\ prerenderFallbackFalseMap # <<>>
    /\ \E p \in DOMAIN launchers : launchers[p] = prerenderFallbackFalseMap
    /\ notFoundPath = "/_error"

(***************************************************************************)
(* C11.  In matchUrlToPage a route whose page has an entry in              *)
(* prerenderFallbackFalseMap is returned only for a request whose          *)
(* normalized path, or its locale-including form, is listed for that page; *)
(* a route whose regex matches but whose page does not list the path is    *)
(* skipped, and the first later route that passes is returned.  With       *)
(* {"/posts/[slug]": ["/posts/a"]}, /posts/a gives the page and /posts/b   *)
(* does not.                                                               *)
(***************************************************************************)
HandledRoutes == StaticRoutes(build) \o DynamicManifestRoutes(build)

\* the route's regex matches the handled path and its page, when it has an
\* entry in the launcher's map, lists the path in one of its two forms
PassesFallbackFalse(k) ==
    LET h == handled[1]
        route == HandledRoutes[k]
    IN /\ RegexTest(route.regex, h.urlPathname)
       /\ route.page \in DOMAIN h.map =>
              \E i \in 1..Len(h.map[route.page]) :
                  h.map[route.page][i] \in {h.urlPathname, h.urlPathnameWithLocale}

C11_FallbackFalseExclusion ==
    handled # <<>> =>
        LET h == handled[1] IN
        /\ h.route # 0 => PassesFallbackFalse(h.route)
        /\ \A k \in 1..Len(HandledRoutes) :
               PassesFallbackFalse(k) => h.route # 0 /\ h.route <= k
        /\ h.map = ("/posts/[slug]" :> <<"/posts/a">>) =>
               /\ h.request = "/posts/a" => h.page = "/posts/[slug]"
               /\ h.request = "/posts/b" => h.page # "/posts/[slug]"

\* a request whose path the fallback-false page does not list went on to the
\* catch-all route behind it
C11_Witness ==
    /\ handled # <<>>
    /\ handled[1].request = "/posts/b"
    /\ handled[1].map = ("/posts/[slug]" :> <<"/posts/a">>)
    /\ handled[1].page = "/[...rest]"

(***************************************************************************)
(* C12.  As stated: with data resolving active, basePath "" and            *)
(* trailingSlash false, the denormalization rules applied to a canonical   *)
(* path P that carries x-nextjs-data, followed by the normalization rules, *)
(* give P again, for every canonical path not under _next/; the root path  *)
(* goes through /_next/data/<buildId>/index.json.                          *)
(***************************************************************************)
C12_DataRouteRoundTrip ==
    (/\ handled # <<>>
     /\ build.config.basePath = ""
     /\ ~build.config.trailingSlash) =>
        /\ handled[1].normalized = handled[1].request
        /\ handled[1].request = "/" =>
               handled[1].denormalized = "/_next/data/" \o build.buildId \o "/index.json"

RewriteGroups == {"beforeFiles", "afterFiles", "fallback"}

\* the rules of one rewrite group as they stand in the route list
EmittedRewrites(group) == SelectSeq(routes, LAMBDA r : r.origin = group)

PrefetchFlagSet ==
    ShouldHandlePrefetchRsc(build.config) \/ ShouldHandleSegmentPrefetches(build.config)

\* the rule list holds one rule per rewrite entry of every group
RewritesEmitted ==
    /\ Compiled
    /\ \A g \in RewriteGroups : Len(EmittedRewrites(g)) = Len(build.routes.rewrites[g])

CanonicalSuffix == "(?:\\/)?$"

SuffixGroup == "(?<rscsuff>"

\* src was extended: the canonical suffix is gone and the suffix group ends src
SrcExtended(rule, entry) ==
    /\ EndsWith(entry.sourceRegex, CanonicalSuffix)
    /\ ~EndsWith(rule.src, CanonicalSuffix)
    /\ Includes(rule.src, "(?:/)?" \o SuffixGroup \o "\\.rsc")
    /\ EndsWith(rule.src, ")?")

DestExtended(rule, entry) ==
    /\ Includes(rule.dest, "$rscsuff")
    /\ ~Includes(entry.destination, "$rscsuff")

Untouched(rule, entry) == rule.src = entry.sourceRegex /\ rule.dest = entry.destination

(***************************************************************************)
(* C13.  As stated: with a prefetch flag set, every rewrite of afterFiles, *)
(* and likewise every rewrite of beforeFiles and fallback, whose source    *)
(* ends in the optional-trailing-slash suffix has its source extended with *)
(* the partial-render suffix group and its destination extended with the   *)
(* captured suffix.                                                        *)
(***************************************************************************)
C13_AllGroupsExtended ==
    (RewritesEmitted /\ PrefetchFlagSet) =>
        \A g \in RewriteGroups : \A i \in 1..Len(EmittedRewrites(g)) :
            LET entry == build.routes.rewrites[g][i]
                rule == EmittedRewrites(g)[i]
            IN EndsWith(entry.sourceRegex, CanonicalSuffix) =>
                   SrcExtended(rule, entry) /\ DestExtended(rule, entry)

(***************************************************************************)
(* C13, amended.  With a prefetch flag set, only the afterFiles rewrites   *)
(* are extended: each has its destination extended with the captured       *)
(* suffix, and its source extended with the suffix group when it ends in   *)
(* the optional-trailing-slash suffix (left as it was otherwise).  The     *)
(* beforeFiles and fallback rewrites keep src and dest as in the entry.    *)
(* With no flag set no group is changed.                                   *)
(***************************************************************************)
C13_OnlyAfterFilesExtended ==
    RewritesEmitted =>
        \A g \in RewriteGroups : \A i \in 1..Len(EmittedRewrites(g)) :
            LET entry == build.routes.rewrites[g][i]
                rule == EmittedRewrites(g)[i]
            IN IF PrefetchFlagSet /\ g = "afterFiles"
               THEN /\ DestExtended(rule, entry)
                    /\ IF EndsWith(entry.sourceRegex, CanonicalSuffix)
                       THEN SrcExtended(rule, entry)
                       ELSE rule.src = entry.sourceRegex
               ELSE Untouched(rule, entry)

\* a flagged build with a suffixed rewrite in each group has been compiled
C13_Witness ==
    /\ RewritesEmitted /\ PrefetchFlagSet
    /\ \A g \in RewriteGroups :
           /\ Len(EmittedRewrites(g)) > 0
           /\ EndsWith(build.routes.rewrites[g][1].sourceRegex, CanonicalSuffix)
    /\ SrcExtended(EmittedRewrites("afterFiles")[1], build.routes.rewrites.afterFiles[1])
    /\ Untouched(EmittedRewrites("beforeFiles")[1], build.routes.rewrites.beforeFiles[1])

\* the part of a destination from its first '?' on ("" when there is none)
QueryPart(dest) == IF IndexOf(dest, "?") = -1 THEN "" ELSE SubstringFrom(dest, IndexOf(dest, "?"))

PathPart(dest) == IF IndexOf(dest, "?") = -1 THEN dest ELSE Substring(dest, 0, IndexOf(dest, "?"))

(***************************************************************************)
(* C14.  As stated: a destination augmented with $rscsuff has the          *)
(* placeholder after any existing query string, that is at its end.        *)
(***************************************************************************)
C14_PlaceholderAfterQuery ==
    (RewritesEmitted /\ PrefetchFlagSet) =>
        \A i \in 1..Len(EmittedRewrites("afterFiles")) :
            LET entry == build.routes.rewrites.afterFiles[i]
                rule == EmittedRewrites("afterFiles")[i]
            IN rule.dest = entry.destination \o "$rscsuff"

(***************************************************************************)
(* C14, amended.  A destination augmented with $rscsuff has the            *)
(* placeholder right before the '?' of its query string, the query string  *)
(* following it unchanged, and at the end when there is no '?'.            *)
(***************************************************************************)
C14_PlaceholderBeforeQuery ==
    (RewritesEmitted /\ PrefetchFlagSet) =>
        \A i \in 1..Len(EmittedRewrites("afterFiles")) :
            LET entry == build.routes.rewrites.afterFiles[i]
                rule == EmittedRewrites("afterFiles")[i]
            IN rule.dest = PathPart(entry.destination) \o "$rscsuff" \o QueryPart(entry.destination)

\* an afterFiles rewrite whose destination has a query was augmented
C14_Witness ==
    /\ RewritesEmitted /\ PrefetchFlagSet
    /\ Len(EmittedRewrites("afterFiles")) > 0
    /\ Len(QueryPart(build.routes.rewrites.afterFiles[1].destination)) > 1
    /\ Includes(EmittedRewrites("afterFiles")[1].dest, "$rscsuff?")

IsExternal(dest) == StartsWith(dest, "http://") \/ StartsWith(dest, "https://")

\* destination up to its first '?' or, without a '?', its first '#'
RewrittenPath(dest) ==
    LET cut == IF IndexOf(dest, "?") # -1 THEN IndexOf(dest, "?") ELSE IndexOf(dest, "#")
    IN IF cut = -1 THEN dest ELSE Substring(dest, 0, cut)

\* what follows the first '?', up to a '#'
RewrittenQuery(dest) ==
    LET q == IF IndexOf(dest, "?") = -1 THEN "" ELSE SubstringFrom(dest, IndexOf(dest, "?") + 1)
    IN IF IndexOf(q, "#") = -1 THEN q ELSE Substring(q, 0, IndexOf(q, "#"))

HeaderOf(rule, key) ==
    IF "headers" \in DOMAIN rule /\ key \in DOMAIN rule.headers THEN <<rule.headers[key]>> ELSE <<>>

\* the rewrite headers of a rule are the ones its entry's destination calls for
RewriteHeadersMatch(rule, entry) ==
    IF IsExternal(entry.destination)
    THEN HeaderOf(rule, "x-nextjs-rewritten-path") = <<>>
         /\ HeaderOf(rule, "x-nextjs-rewritten-query") = <<>>
    ELSE /\ HeaderOf(rule, "x-nextjs-rewritten-path") = <<RewrittenPath(entry.destination)>>
         /\ HeaderOf(rule, "x-nextjs-rewritten-query") =
                IF RewrittenQuery(entry.destination) = "" THEN <<>>
                ELSE <<RewrittenQuery(entry.destination)>>

(***************************************************************************)
(* C15.  As stated: for every build, every rewrite of the three groups     *)
(* with a destination that is not external carries x-nextjs-rewritten-path *)
(* with the destination's path part and, when the destination has a query, *)
(* x-nextjs-rewritten-query with the query part; a rewrite with an         *)
(* external destination carries neither.                                   *)
(***************************************************************************)
C15_RewriteHeadersOnEveryBuild ==
    RewritesEmitted =>
        \A g \in RewriteGroups : \A i \in 1..Len(EmittedRewrites(g)) :
            RewriteHeadersMatch(EmittedRewrites(g)[i], build.routes.rewrites[g][i])

(***************************************************************************)
(* C15, amended.  The rewrite headers are added only for builds with a     *)
(* prefetch flag set: there every rewrite of the three groups carries the  *)
(* headers its destination calls for; with neither flag set no rewrite     *)
(* carries a headers field.                                                *)
(***************************************************************************)
C15_RewriteHeadersWhenFlagged ==
    RewritesEmitted =>
        \A g \in RewriteGroups : \A i \in 1..Len(EmittedRewrites(g)) :
            IF PrefetchFlagSet
            THEN RewriteHeadersMatch(EmittedRewrites(g)[i], build.routes.rewrites[g][i])
            ELSE "headers" \notin DOMAIN EmittedRewrites(g)[i]

\* a flagged build whose rewrite has a query got both headers
C15_Witness ==
    /\ RewritesEmitted /\ PrefetchFlagSet
    /\ \E g \in RewriteGroups :
           /\ Len(EmittedRewrites(g)) > 0
           /\ HeaderOf(EmittedRewrites(g)[1], "x-nextjs-rewritten-path") # <<>>
           /\ HeaderOf(EmittedRewrites(g)[1], "x-nextjs-rewritten-query") = <<"a=1&b=2">>

FlagOf(rule, name) == IF name \in DOMAIN rule THEN <<rule[name]>> ELSE <<>>

DataOrigins == {"normalizeNextData", "denormalizeNextData"}

Overrides(rule) == "override" \in DOMAIN rule /\ rule.override

\* the positions of the data-route rules that rewrite the path
DataRewritePositions ==
    {i \in OriginPositions(routes, DataOrigins) : "dest" \in DOMAIN routes[i]}

(***************************************************************************)
(* C17.  As stated: data-route rules carry override=true only in the       *)
(* earliest, pre-redirect normalization pass; those of the pre-filesystem  *)
(* denormalization, the post-filesystem normalization and the post-rewrite *)
(* denormalization do not.                                                 *)
(***************************************************************************)
C17_OverrideOnlyInFirstPass ==
    Compiled =>
        \A i \in OriginPositions(routes, DataOrigins) :
            Overrides(routes[i]) =>
                /\ routes[i].origin = "normalizeNextData"
                /\ AllBefore({i}, MarkerPositions(routes, "filesystem"))

(***************************************************************************)
(* C17, amended.  The data-route rules that rewrite the path carry         *)
(* override=true in the two passes ahead of the filesystem marker, the     *)
(* pre-redirect normalization and the pre-filesystem denormalization; no   *)
(* data-route rule at a later position (post-filesystem normalization,     *)
(* post-rewrite denormalization) carries override, nor does the rule that  *)
(* appends the x-nextjs-data header.                                       *)
(***************************************************************************)
C17_OverrideAheadOfFilesystem ==
    Compiled =>
        \A i \in OriginPositions(routes, DataOrigins) :
            Overrides(routes[i]) <=>
                /\ i \in DataRewritePositions
                /\ AllBefore({i}, MarkerPositions(routes, "filesystem"))

\* all four passes are in the list, a denormalization rule with override among them
C17_Witness ==
    /\ Compiled
    /\ \E i, j, k, l \in OriginPositions(routes, DataOrigins) :
           /\ i < j /\ j < k /\ k < l
           /\ routes[i].origin = "normalizeNextData" /\ Overrides(routes[i])
           /\ routes[j].origin = "denormalizeNextData" /\ Overrides(routes[j])
           /\ routes[k].origin = "normalizeNextData" /\ ~Overrides(routes[k])
           /\ routes[l].origin = "denormalizeNextData" /\ ~Overrides(routes[l])
           /\ \A m \in MarkerPositions(routes, "filesystem") : j < m /\ m < k

HasKey(conditions, key) == \E c \in 1..Len(conditions) : conditions[c].key = key

\* the rule appends the header or has a has / missing condition on it
MentionsHeader(rule, key) ==
    \/ "has" \in DOMAIN rule /\ HasKey(rule.has, key)
    \/ "missing" \in DOMAIN rule /\ HasKey(rule.missing, key)
    \/ "transforms" \in DOMAIN rule
           /\ \E t \in 1..Len(rule.transforms) : rule.transforms[t].target.key = key

(***************************************************************************)
(* C18.  Data-route normalization and denormalization are active only when *)
(* both pages-style outputs and middleware exist: with either one absent   *)
(* the four passes give no rule, and no rule of the list appends           *)
(* x-nextjs-data or is conditioned on it; with both, the passes give       *)
(* their rules.                                                            *)
(***************************************************************************)
C18_DataRulesOnlyWithPagesAndMiddleware ==
    Compiled =>
        IF HasPagesDir(build.outputs) /\ HasMiddleware(build.outputs)
        THEN /\ Cardinality(OriginPositions(routes, {"normalizeNextData"})) = 6
             /\ Cardinality(OriginPositions(routes, {"denormalizeNextData"})) = 4
        ELSE /\ OriginPositions(routes, DataOrigins) = {}
             /\ \A i \in 1..Len(routes) : ~MentionsHeader(routes[i], "x-nextjs-data")

\* middleware without pages-style outputs: middleware rules, but no data rule
C18_Witness ==
    /\ Compiled
    /\ HasMiddleware(build.outputs) /\ ~HasPagesDir(build.outputs)
    /\ Present("middleware")
    /\ OriginPositions(routes, DataOrigins) = {}

RedirectOrigins == {"priorityRedirect", "redirect"}

\* the rule is the redirect: its src, Location and status
IsRuleOf(rule, redirect) ==
    /\ rule.src = redirect.sourceRegex
    /\ rule.headers = ("Location" :> redirect.destination)
    /\ rule.status = redirect.statusCode

(***************************************************************************)
(* C19.  Every redirect with priority=true is at the head of the route     *)
(* list, before data normalization, the locale block, user headers and     *)
(* non-priority redirects, with continue=true; every input redirect        *)
(* appears exactly once in the list, and input order is kept within the    *)
(* priority group and within the non-priority group.                       *)
(***************************************************************************)
C19_PriorityRedirectsAtHead ==
    Compiled =>
        LET input == build.routes.redirects
            priority == SelectSeq(input, LAMBDA r : r.priority)
            others == SelectSeq(input, LAMBDA r : ~r.priority)
            emitted == SelectSeq(routes, LAMBDA r : r.origin = "redirect")
        IN /\ OriginPositions(routes, {"priorityRedirect"}) = 1..Len(priority)
           /\ \A i \in 1..Len(priority) :
                  IsRuleOf(routes[i], priority[i]) /\ FlagOf(routes[i], "continue") = <<TRUE>>
           /\ Len(emitted) = Len(others)
           /\ \A i \in 1..Len(others) : IsRuleOf(emitted[i], others[i])
           /\ \A r \in 1..Len(input) :
                  Cardinality({i \in 1..Len(routes) :
                                   routes[i].origin \in RedirectOrigins
                                       /\ IsRuleOf(routes[i], input[r])}) = 1
           /\ AllBefore(OriginPositions(routes, {"priorityRedirect"}),
                        OriginPositions(routes, DataOrigins \cup LocaleOrigins
                                                    \cup {"header", "redirect"}))

\* two priority redirects ahead of data normalization, locale rules, a header
\* and nothing else
C19_Witness ==
    /\ Compiled
    /\ Len(routes) > 2
    /\ routes[1].origin = "priorityRedirect" /\ routes[2].origin = "priorityRedirect"
    /\ routes[1].src # routes[2].src
    /\ routes[3].origin = "normalizeNextData"
    /\ OriginPositions(routes, LocaleOrigins) # {} /\ Present("header")

(***************************************************************************)
(* C20.  As stated: both literal-status rules, status 404 for a literal    *)
(* /404 path and status 500 for a literal /500 path, in the locale-aware   *)
(* form with i18n and the plain form without, carry the condition that     *)
(* the header x-prerender-revalidate is missing.                           *)
(***************************************************************************)
C20_LiteralStatusRulesBypassed ==
    Compiled =>
        /\ Cardinality(OriginPositions(routes, {"literal404"})) = 1
        /\ Cardinality(OriginPositions(routes, {"literal500"})) = 1
        /\ \A i \in OriginPositions(routes, {"literal404", "literal500"}) :
               /\ "missing" \in DOMAIN routes[i]
               /\ routes[i].missing = RevalidateBypass

\* the rules after { handle: 'error' } for one status, in list order
ErrorFallback(origin) == SelectSeq(routes, LAMBDA r : r.origin = origin)

\* the explicit-locale rule followed by the default-locale catch-all
IsLocaleAwarePair(rules) ==
    /\ Len(rules) = 2
    /\ Includes(rules[1].src, "(?<nextLocale>")
    /\ Includes(rules[1].dest, "/$nextLocale/")
    /\ FlagOf(rules[1], "caseSensitive") = <<TRUE>>
    /\ EndsWith(rules[2].src, ".*") /\ ~Includes(rules[2].src, "(?<nextLocale>")
    /\ Includes(rules[2].dest, "/" \o build.config.i18n[1].defaultLocale \o "/")

\* one rule on every path under the base path
IsSingleBasePathRule(rules) ==
    /\ Len(rules) = 1
    /\ rules[1].src = (IF build.config.basePath = "" THEN "/.*"
                       ELSE build.config.basePath \o "/?.*")
    /\ ~Includes(rules[1].dest, "$nextLocale")
    /\ StartsWith(rules[1].dest, build.config.basePath \o "/")

ExpectedServerErrorSuffix == IF OutputExists("/500") THEN "/500" ELSE "/_error"

(***************************************************************************)
(* C21.  As stated: the server-error fallback after the error marker has   *)
(* the structure of the not-found fallback: with i18n set it is the        *)
(* locale-aware pair, otherwise the single base-path-aware rule; its       *)
(* destination ends in /500 if a 500 output exists and in /_error          *)
(* otherwise.                                                              *)
(***************************************************************************)
C21_ServerErrorLikeNotFound ==
    Compiled =>
        LET serverError == ErrorFallback("serverError")
        IN /\ IF HasI18n(build.config) THEN IsLocaleAwarePair(serverError)
              ELSE IsSingleBasePathRule(serverError)
           /\ Len(serverError) = Len(ErrorFallback("notFound"))
           /\ \A i \in 1..Len(serverError) :
                  /\ serverError[i].src = ErrorFallback("notFound")[i].src
                  /\ EndsWith(serverError[i].dest, ExpectedServerErrorSuffix)

(***************************************************************************)
(* C21, amended.  The server-error fallback after the error marker is the  *)
(* locale-aware pair, with destinations ending in /500, only when i18n is  *)
(* set and a 500 output exists; in every other case, i18n without a 500    *)
(* output included, it is the single base-path-aware rule, whose           *)
(* destination ends in /500 if a 500 output exists and in /_error          *)
(* otherwise.  The not-found fallback is the pair whenever i18n is set.    *)
(***************************************************************************)
C21_ServerErrorPairOnlyWith500 ==
    Compiled =>
        LET serverError == ErrorFallback("serverError")
        IN /\ IF HasI18n(build.config) /\ OutputExists("/500")
              THEN IsLocaleAwarePair(serverError)
              ELSE IsSingleBasePathRule(serverError)
           /\ HasI18n(build.config) => IsLocaleAwarePair(ErrorFallback("notFound"))
           /\ AllBefore(MarkerPositions(routes, "error"), OriginPositions(routes, {"serverError"}))
           /\ \A i \in 1..Len(serverError) :
                  /\ serverError[i].status = 500
                  /\ EndsWith(serverError[i].dest, ExpectedServerErrorSuffix)

\* an i18n build without a 500 output: pair for not-found, one rule to /_error
C21_Witness ==
    /\ Compiled
    /\ HasI18n(build.config) /\ ~OutputExists("/500")
    /\ Len(ErrorFallback("notFound")) = 2
    /\ Len(ErrorFallback("serverError")) = 1
    /\ EndsWith(ErrorFallback("serverError")[1].dest, "/_error")

\* the literals of the build description that the code splices into patterns
UserLiterals ==
    {build.buildId}
        \cup (IF build.config.basePath = "" THEN {}
              ELSE {SubstringFrom(build.config.basePath, 1)})
        \cup (IF HasI18n(build.config)
              THEN {build.config.i18n[1].locales[i] : i \in 1..Len(build.config.i18n[1].locales)}
              ELSE {})

\* the rules whose src is built by onBuildComplete rather than taken from the input
GeneratedOrigins ==
    {"normalizeNextData", "denormalizeNextData", "literal404", "literal500",
     "notFound", "serverError"} \cup LocaleOrigins

\* the pattern, read without its backslashes, holds the literal
Embeds(src, literal) == Includes(Unescape(src), literal)

\* the literal stands in the pattern as escapeStringRegexp gives it
PassedThroughEscaper(src, literal) ==
    \/ escapeStringRegexp(literal) = literal
    \/ Includes(src, escapeStringRegexp(literal)) /\ ~Includes(src, literal)

(***************************************************************************)
(* C22.  As stated: in every rule of the route list whose source pattern   *)
(* embeds a locale code, the build id or a base-path segment, that literal *)
(* has been passed through escapeStringRegexp before being spliced into    *)
(* the pattern.                                                            *)
(***************************************************************************)
C22_UserLiteralsEscaped ==
    Compiled =>
        \A i \in OriginPositions(routes, GeneratedOrigins) : \A literal \in UserLiterals :
            Embeds(routes[i].src, literal) => PassedThroughEscaper(routes[i].src, literal)

\* the characters the escaper has to prefix
EscapedOperators == {"|", "\\", "{", "}", "(", ")", "[", "]", "^", "$", "+", "*", "?", ".", "-"}

\* where the i-th character of str stands in the result: one place further
\* for each operator up to and including it
PlaceOf(str, i) == i + Cardinality({j \in 1..i : CharAt(str, j) \in EscapedOperators})

(***************************************************************************)
(* C23.  escapeStringRegexp returns for every string: each occurrence of   *)
(* | \ { } ( ) [ ] ^ $ + * ? . - is prefixed with one backslash, every     *)
(* other character stands unchanged and in order, nothing else is added,   *)
(* and dropping the inserted backslashes gives the string back.            *)
(***************************************************************************)
C23_EscapeStringRegexp ==
    (applied # <<>> /\ "result" \in DOMAIN applied[1] /\ "str" \in DOMAIN applied[1]) =>
        LET str == applied[1].str
            result == applied[1].result
        IN /\ Len(result) = PlaceOf(str, Len(str))
           /\ \A i \in 1..Len(str) :
                  /\ CharAt(result, PlaceOf(str, i)) = CharAt(str, i)
                  /\ CharAt(str, i) \in EscapedOperators =>
                         CharAt(result, PlaceOf(str, i) - 1) = "\\"
           /\ Unescape(result) = str

\* a string of a dash and a backslash came back with both prefixed
C23_Witness ==
    /\ applied # <<>>
    /\ "result" \in DOMAIN applied[1]
    /\ applied[1].str = "-\\"
    /\ applied[1].result = "\\-\\\\"

\* the node outputs a .vc-config.json is written for, middleware included
ConfiguredOutputs ==
    LET all == NodeOutputs(build.outputs)
                   \o SelectSeq(build.outputs.middleware, LAMBDA o : o.runtime = "nodejs")
    IN {all[i] : i \in 1..Len(all)}

(***************************************************************************)
(* C24.  As stated: the operationType written to a node function's         *)
(* configuration is 'PAGE' when the output is an App-Router page or a      *)
(* Pages-Router page and 'API' for every other output type (App route      *)
(* handlers, Pages API routes, middleware).                                *)
(***************************************************************************)
C24_OperationTypeByOutputType ==
    \A output \in ConfiguredOutputs :
        output.pathname \in DOMAIN vcConfigs =>
            vcConfigs[output.pathname].operationType =
                IF output.type \in {"APP_PAGE", "PAGES"} THEN "PAGE" ELSE "API"

ImagesGiven == IF "images" \in DOMAIN applied[1].config THEN applied[1].config.images ELSE <<>>

ImagesReturned ==
    /\ applied # <<>>
    /\ DOMAIN applied[1] = {"config", "result"}

\* the settings of images come back as they are, the ones left out stay out
SettingsCarried ==
    \A k \in CarriedKeys :
        IF k \in DOMAIN ImagesGiven
        THEN k \in DOMAIN applied[1].result /\ applied[1].result[k] = ImagesGiven[k]
        ELSE k \notin DOMAIN applied[1].result

(***************************************************************************)
(* C25.  As stated: getImagesConfig gives an empty sequence for every      *)
(* collection that is absent (remotePatterns, localPatterns, domains,      *)
(* imageSizes / deviceSizes) and carries qualities, formats,               *)
(* minimumCacheTTL, dangerouslyAllowSVG, contentSecurityPolicy and         *)
(* contentDispositionType through unchanged.                               *)
(***************************************************************************)
C25_AbsentCollectionsEmpty ==
    ImagesReturned =>
        /\ \A k \in {"remotePatterns", "localPatterns", "domains"} :
               k \notin DOMAIN ImagesGiven =>
                   k \in DOMAIN applied[1].result /\ applied[1].result[k] = <<>>
        /\ ({"imageSizes", "deviceSizes"} \cap DOMAIN ImagesGiven = {}) =>
               applied[1].result.sizes = <<>>
        /\ SettingsCarried

(***************************************************************************)
(* C25, amended.  getImagesConfig gives an empty sequence for absent       *)
(* remotePatterns and domains, and sizes is imageSizes followed by         *)
(* deviceSizes with an absent one counting as empty; absent localPatterns  *)
(* stay absent from the result (no empty sequence is put in their place),  *)
(* and present ones are mapped one to one.  qualities, formats,            *)
(* minimumCacheTTL, dangerouslyAllowSVG, contentSecurityPolicy and         *)
(* contentDispositionType are carried through unchanged.                   *)
(***************************************************************************)
C25_LocalPatternsStayAbsent ==
    ImagesReturned =>
        LET result == applied[1].result
        IN /\ \A k \in {"remotePatterns", "domains"} :
                  /\ k \in DOMAIN result
                  /\ k \notin DOMAIN ImagesGiven => result[k] = <<>>
           /\ "domains" \in DOMAIN ImagesGiven => result.domains = ImagesGiven.domains
           /\ "remotePatterns" \in DOMAIN ImagesGiven =>
                  Len(result.remotePatterns) = Len(ImagesGiven.remotePatterns)
           /\ result.sizes = OrEmpty(ImagesGiven, "imageSizes") \o OrEmpty(ImagesGiven, "deviceSizes")
           /\ IF "localPatterns" \in DOMAIN ImagesGiven
              THEN /\ "localPatterns" \in DOMAIN result
                   /\ Len(result.localPatterns) = Len(ImagesGiven.localPatterns)
              ELSE "localPatterns" \notin DOMAIN result
           /\ SettingsCarried

\* images with settings but no collection at all went through
C25_Witness ==
    /\ ImagesReturned
    /\ DOMAIN ImagesGiven = CarriedKeys
    /\ applied[1].result.remotePatterns = <<>>
    /\ applied[1].result.sizes = <<>>
    /\ "localPatterns" \notin DOMAIN applied[1].result
    /\ applied[1].result.qualities = <<75, 90>>

EdgeMatched ==
    /\ applied # <<>>
    /\ DOMAIN applied[1] = {"params", "url", "pageMatch"}

\* the positions of the routes whose regexp takes the pathname
Matching(routeList, pathname) == {i \in 1..Len(routeList) : RegexTest(routeList[i].regex, pathname)}

UnderApi(path) == path = "/api" \/ StartsWith(path, "/api/")

(***************************************************************************)
(* C26.  In the page matching of the edge function the static routes are   *)
(* tried before the dynamic ones and the first route that matches wins;    *)
(* a request whose pathname, base path and locale removed, is /api or      *)
(* under /api/ is never matched to a dynamic route whose page is not an    *)
(* API route itself.                                                       *)
(***************************************************************************)
C26_EdgePageMatch ==
    EdgeMatched =>
        LET static == applied[1].params.staticRoutes
            dynamic == applied[1].params.dynamicRoutes
            match == applied[1].pageMatch
            s == Matching(static, match.pathname)
            d == Matching(dynamic, match.pathname)
        IN /\ s # {} =>
                  /\ ~match.dynamic
                  /\ match.page = <<static[CHOOSE i \in s : \A j \in s : i <= j].page>>
           /\ (s = {} /\ match.page # <<>>) =>
                  \E i \in d :
                      /\ match.page = <<dynamic[i].page>>
                      /\ \A j \in d : j < i => (UnderApi(match.pathname)
                                                    /\ ~UnderApi(dynamic[j].page))
           /\ (s = {} /\ match.page = <<>>) =>
                  \A i \in d : UnderApi(match.pathname) /\ ~UnderApi(dynamic[i].page)
           /\ (match.dynamic /\ match.page # <<>> /\ UnderApi(match.pathname)) =>
                  UnderApi(match.page[1])

\* /docs/fr/api/7 with the catch-all ahead of the API route: the catch-all
\* matches /api/7 but the request goes to /api/[id]
C26_Witness ==
    /\ EdgeMatched
    /\ applied[1].url = "/fr/api/7"
    /\ applied[1].params.staticRoutes = <<EdgeRoute("/about", "static", "/about")>>
    /\ applied[1].params.dynamicRoutes =
           <<EdgeRoute("/[...rest]", "catchAll", "/"), EdgeRoute("/api/[id]", "dynamic", "/api/")>>
    /\ applied[1].pageMatch.pathname = "/api/7"
    /\ applied[1].pageMatch.page = <<"/api/[id]">>

\* the calls whose write is under way
InFlight == {i \in DOMAIN calls : calls[i].at = "writing"}

\* C27: for any number of concurrent calls of writeIfNotExists on one path
\* and any interleaving, at most one exclusive-create write for the path is
\* under way at any time.
C27_OneWriteInFlight == Cardinality(InFlight) <= 1

AllSettled == calls # <<>> /\ \A i \in DOMAIN calls : Settled(i)

\* the calls whose write created the file
Creators == {i \in DOMAIN calls : calls[i].at # "await" /\ calls[i].at # "writing"
                                   /\ calls[i].code = ""}

NoOtherFailure == \A i \in DOMAIN calls : calls[i].code # "EIO"

\* C28: for any interleaving of concurrent calls on one path with possibly
\* different contents: the file has the content of exactly one call, the one
\* whose create took effect first (or is the file that was there before the
\* calls), no later call changes it, the calls resolve without error unless
\* the file system fails for another reason than the file being there, and
\* once all calls have settled writeLock has no entry for the path.
C28_FirstCreateWins ==
    /\ Cardinality(Creators) <= 1
    /\ disk # <<>> /\ disk # OldFile =>
         /\ Creators = {disk[1].writer}
         /\ disk[1].content = calls[disk[1].writer].content
    /\ NoOtherFailure => \A i \in DOMAIN calls : calls[i].at # "rejected"
    /\ AllSettled => writeLock = <<>>
    /\ AllSettled /\ NoOtherFailure =>
         /\ disk # <<>>
         /\ \A i \in DOMAIN calls : calls[i].at = "resolved"
         /\ disk = OldFile \/ Cardinality(Creators) = 1

\* three calls with two contents have settled: one created the file, the
\* others found it there
C28_Witness ==
    /\ AllSettled /\ Len(calls) = 3
    /\ {calls[i].content : i \in DOMAIN calls} = Contents
    /\ {calls[i].code : i \in DOMAIN calls} = {"", "EEXIST"}
    /\ disk # <<>> /\ disk[1].writer = 2

TasksSettled == tasks # <<>> /\ \A i \in DOMAIN tasks : tasks[i].at \in {"done", "threw"}

\* C29: in each of the five output handlers, a task that has acquired a
\* permit releases it before it finishes, whether it completes or throws:
\* once all tasks have settled no permit is held.
C29_PermitsReleased == TasksSettled => fsSema = SemaPermits

\* C30: after modifyWithRewriteHeaders has gone through the afterFiles
\* group, the destination of a rewrite holds the placeholder $rscsuff only if
\* its source defines the named group rscsuff, whatever the shape of the
\* source pattern.
C30_PlaceholderOnlyWithGroup ==
    RewritesEmitted =>
        \A i \in 1..Len(EmittedRewrites("afterFiles")) :
            LET rule == EmittedRewrites("afterFiles")[i]
            IN Includes(rule.dest, "$rscsuff") => Includes(rule.src, SuffixGroup)

====
